---- MODULE Spec2Model ----
(***************************************************************************)
(* Model of the retrieval pipeline of MCP-RAG-Playground:                  *)
(*   VectorClient  (vectordb/vector_client.py)  lazy collection creation,  *)
(*                  upload, query, get_collection_info, delete_collection  *)
(*   RagAPI        (rag/rag_api.py)  add/query/remove and the batch loops  *)
(*   MilvusVectorDB (vectordb/milvus/milvus_client.py)  the storage side   *)
(*                                                                         *)
(* Texts are sequences of one-character strings.  Similarity scores are    *)
(* integers in tenths (9 stands for 0.9).  A collaborator call that fails  *)
(* is an input of the operation: "fault" names the collaborator method     *)
(* that raises when it is reached ("<method>_false": it returns False).    *)
(***************************************************************************)
EXTENDS Integers, Sequences, FiniteSets, TLC

VARIABLES
    collection_name,   \* VectorClient.collection_name
    initialized,       \* VectorClient._initialized
    existing,          \* storage: names of the collections that exist
    store,             \* storage: the entities, [id, coll, content]
    nextId,            \* storage: number of ids handed out (uuid4 is fresh)
    last,              \* the last public operation: inputs, outcome, collaborator calls
    ensured,           \* an ensure step has succeeded and no delete_collection ran since
    seen,              \* ids that some query has returned
    cpc,               \* concurrent callers: position inside _ensure_collection_exists
    cexists,           \* concurrent callers: the value collection_exists returned
    cfailed,           \* concurrent callers: why the operation ended in RuntimeError ("no": it did not)
    createCalls,       \* concurrent callers: number of create_collection invocations
    bpc,               \* batch: "idle", "loop" or "done"
    bop,               \* batch: "add" or "remove"
    items,             \* batch: the input list (file_paths / document_ids)
    idx,               \* batch: number of items the for loop has taken
    results,           \* batch: results
    successful_count,  \* batch: successful_count
    failed_count,      \* batch: failed_count
    errors,            \* batch: errors
    processed,         \* batch: the items handed to add_document / remove_document, in call order
    ret,               \* batch: the returned dictionary
    fpc,               \* score filter run: "load", "baseline" or "done"
    ftext,             \* score filter run: the query text
    flimit,            \* score filter run: the limit
    ffault,            \* score filter run: the collaborator call that fails
    fmin,              \* score filter run: the threshold m of the second query
    fbase,             \* score filter run: result of query(min_score=0)
    ffiltered,         \* score filter run: result of query(min_score=m)
    kpc,               \* chunker: "idle", "loop" or "done"
    kraw,              \* chunker: the text _chunk_text was given
    chunk_size,        \* chunker: DocumentProcessor.chunk_size
    overlap,           \* chunker: DocumentProcessor.overlap
    ktext,             \* chunker: text (normalized once the loop is entered)
    kstart,            \* chunker: start
    kchunks,           \* chunker: chunks, each [content, start_char, end_char]
    kstarts,           \* chunker: the value of start at each iteration so far
    kforced,           \* chunker: number of iterations that took the forced advance
    chunk_index,       \* chunker: the chunk_index counter of _chunk_text
    qa,                \* question answering: the last ask_question / search call and its response
    dq,                \* the last detect_question_type call: query and returned type
    cs                 \* the last _calculate_confidence_score call: sources, type and score

clientVars == <<collection_name, initialized, existing, store, nextId>>
obsVars    == <<last, ensured, seen>>
concVars   == <<cpc, cexists, cfailed, createCalls>>
batchVars  == <<bpc, bop, items, idx, results, successful_count, failed_count,
                errors, processed, ret>>
filterVars == <<fpc, ftext, flimit, ffault, fmin, fbase, ffiltered>>
chunkVars  == <<kpc, kraw, chunk_size, overlap, ktext, kstart, kchunks, kstarts, kforced,
               chunk_index>>
qaVars     == <<qa, dq, cs>>
pureVars   == <<chunkVars, qaVars>>
vars == <<clientVars, obsVars, concVars, batchVars, filterVars, pureVars>>

----------------------------------------------------------------------------
(* Bounds of the model *)

MaxDocs == 2        \* entities the storage holds at most
MaxLimit == 2       \* largest limit a query is given
MaxBatch == 2       \* longest batch input list
NumCallers == 2     \* concurrent callers of one VectorClient

----------------------------------------------------------------------------
(* Inputs *)

CollNames == {"rag_collection", "default_collection"}

\* query texts: empty, whitespace only, and " Db!" (leading whitespace,
\* an upper-case letter, an abbreviation, punctuation)
QueryTexts ==
    { <<>>, <<" ", " ">>, <<" ", "D", "b", "!">> }

Limits == 1..MaxLimit
MinScores == {-1, 0, 4}

\* files: two chunks, one chunk, no chunk (whitespace only), not on disk
FilePaths == {"a.txt", "b.md", "empty.txt", "missing.txt"}
FilesOnDisk == {"a.txt", "b.md", "empty.txt"}

\* DocumentProcessor.process_file: the chunk contents of a file
FileChunks(path) ==
    CASE path = "a.txt" -> <<1, 2>>
      [] path = "b.md" -> <<3>>
      [] OTHER -> <<>>

\* the id (a uuid4 string) of the n-th entity inserted
DocIdOf(n) == <<"id1", "id2", "id3", "id4", "id5", "id6">>[n]
d_id(d) == DocIdOf(d.n)

----------------------------------------------------------------------------
(* Text helpers (Python str.strip, str.lower, re.sub, str.split, str.join) *)

Whitespace == {" ", "\n"}

LowerLetters ==
    <<"a", "b", "c", "d", "e", "f", "g", "h", "i", "j", "k", "l", "m",
      "n", "o", "p", "q", "r", "s", "t", "u", "v", "w", "x", "y", "z">>
UpperLetters ==
    <<"A", "B", "C", "D", "E", "F", "G", "H", "I", "J", "K", "L", "M",
      "N", "O", "P", "Q", "R", "S", "T", "U", "V", "W", "X", "Y", "Z">>
Digits == {"0", "1", "2", "3", "4", "5", "6", "7", "8", "9"}

Range(f) == {f[i] : i \in DOMAIN f}

\* the characters \w matches
WordChars == Range(LowerLetters) \cup Range(UpperLetters) \cup Digits \cup {"_"}

RECURSIVE LStrip(_)
LStrip(s) ==
    IF s # <<>> /\ Head(s) \in Whitespace THEN LStrip(Tail(s)) ELSE s

RECURSIVE RStrip(_)
RStrip(s) ==
    IF s # <<>> /\ s[Len(s)] \in Whitespace
    THEN RStrip(SubSeq(s, 1, Len(s) - 1))
    ELSE s

\* str.strip()
Strip(s) == RStrip(LStrip(s))

\* `not question or not question.strip()`
IsBlank(s) == s = <<>> \/ Strip(s) = <<>>

\* re.sub(r'\s+', ' ', s)
RECURSIVE CollapseWhitespace(_)
CollapseWhitespace(s) ==
    IF s = <<>> THEN <<>>
    ELSE IF Head(s) \in Whitespace
         THEN <<" ">> \o CollapseWhitespace(LStrip(s))
         ELSE <<Head(s)>> \o CollapseWhitespace(Tail(s))

LowerChar(c) ==
    IF \E i \in DOMAIN UpperLetters : UpperLetters[i] = c
    THEN LowerLetters[CHOOSE i \in DOMAIN UpperLetters : UpperLetters[i] = c]
    ELSE c

\* str.lower()
Lower(s) == [i \in DOMAIN s |-> LowerChar(s[i])]

\* re.sub(r'[^\w\s\-\']', ' ', s)
ReplaceSpecial(s) ==
    [i \in DOMAIN s |->
        IF s[i] \in WordChars \cup Whitespace \cup {"-", "'"} THEN s[i] ELSE " "]

\* the first whitespace-free run of s, s having no leading whitespace
RECURSIVE FirstWord(_)
FirstWord(s) ==
    IF s = <<>> \/ Head(s) \in Whitespace THEN <<>>
    ELSE <<Head(s)>> \o FirstWord(Tail(s))

\* str.split()
RECURSIVE Split(_)
Split(s) ==
    LET t == LStrip(s)
        w == FirstWord(t)
    IN  IF t = <<>> THEN <<>>
        ELSE <<w>> \o Split(SubSeq(t, Len(w) + 1, Len(t)))

\* ' '.join(words)
RECURSIVE Join(_)
Join(words) ==
    IF words = <<>> THEN <<>>
    ELSE IF Len(words) = 1 THEN Head(words)
    ELSE Head(words) \o <<" ">> \o Join(Tail(words))

\* the expansions dictionary of _preprocess_query
HasExpansion(word) ==
    word \in { <<"d", "b">>, <<"a", "i">>, <<"m", "l">>, <<"a", "p", "i">>,
               <<"u", "i">>, <<"u", "x">> }

Expansion(word) ==
    CASE word = <<"d", "b">> ->
           <<"d", "a", "t", "a", "b", "a", "s", "e">>
      [] word = <<"a", "i">> ->
           <<"a", "r", "t", "i", "f", "i", "c", "i", "a", "l", " ",
             "i", "n", "t", "e", "l", "l", "i", "g", "e", "n", "c", "e">>
      [] word = <<"m", "l">> ->
           <<"m", "a", "c", "h", "i", "n", "e", " ",
             "l", "e", "a", "r", "n", "i", "n", "g">>
      [] word = <<"a", "p", "i">> ->
           <<"a", "p", "p", "l", "i", "c", "a", "t", "i", "o", "n", " ",
             "p", "r", "o", "g", "r", "a", "m", "m", "i", "n", "g", " ",
             "i", "n", "t", "e", "r", "f", "a", "c", "e">>
      [] word = <<"u", "i">> ->
           <<"u", "s", "e", "r", " ", "i", "n", "t", "e", "r", "f", "a", "c", "e">>
      [] word = <<"u", "x">> ->
           <<"u", "s", "e", "r", " ", "e", "x", "p", "e", "r", "i", "e", "n", "c", "e">>

RECURSIVE ExpandWords(_)
ExpandWords(words) ==
    IF words = <<>> THEN <<>>
    ELSE (IF HasExpansion(Head(words))
          THEN <<Head(words), Expansion(Head(words))>>
          ELSE <<Head(words)>>) \o ExpandWords(Tail(words))

\* VectorClient._preprocess_query
preprocess_query(query_text) ==
    LET collapsed == CollapseWhitespace(Strip(query_text))
        lowered   == Lower(collapsed)
        cleaned   == ReplaceSpecial(lowered)
    IN  Join(ExpandWords(Split(cleaned)))

----------------------------------------------------------------------------
(* The storage and embedding collaborators                                  *)

\* the client and storage state an operation starts from
ClientState ==
    [collection_name |-> collection_name, initialized |-> initialized,
     existing |-> existing, store |-> store, nextId |-> nextId]

\* cosine similarity, in tenths, of an embedded query and a stored chunk:
\* some fixed function of both (the embedding model is deterministic)
Similarity(processed_query, content) ==
    ((content * 5 + Len(processed_query) * 2) % 13) - 2

\* MilvusVectorDB.collection_exists
collection_exists(s, name) == name \in s.existing

\* create_collection without the `if self.collection_exists(...): return True`
\* shortcut: building a collection that is already there fails
create_collection_rejects_existing(s, name, fault) ==
    IF collection_exists(s, name) \/ fault = "create_collection_false"
    THEN [success |-> FALSE, st |-> s]
    ELSE [success |-> TRUE, st |-> [s EXCEPT !.existing = @ \cup {name}]]

\* MilvusVectorDB.create_collection: True at once when the collection is
\* there, False when building it fails, else the collection is created
create_collection(s, name, fault) ==
    IF collection_exists(s, name)
    THEN [success |-> TRUE, st |-> s]
    ELSE IF fault = "create_collection_false"
    THEN [success |-> FALSE, st |-> s]
    ELSE [success |-> TRUE, st |-> [s EXCEPT !.existing = @ \cup {name}]]

\* the hits of a collection for a query, best first (ties: older id first)
RECURSIVE Ranked(_, _)
Ranked(docs, pq) ==
    IF docs = {} THEN <<>>
    ELSE LET best == CHOOSE d \in docs : \A e \in docs :
                        \/ Similarity(pq, d.content) > Similarity(pq, e.content)
                        \/ /\ Similarity(pq, d.content) = Similarity(pq, e.content)
                           /\ d.n <= e.n
         IN  <<[id |-> d_id(best), score |-> Similarity(pq, best.content),
                file_type |-> best.file_type]>>
                 \o Ranked(docs \ {best}, pq)

\* MilvusVectorDB.search: [] for a collection that does not exist, else
\* the `limit` nearest entities in descending score
search(s, name, pq, limit) ==
    IF ~collection_exists(s, name) THEN <<>>
    ELSE LET ranked == Ranked({d \in s.store : d.coll = name}, pq)
         IN  SubSeq(ranked, 1, IF Len(ranked) < limit THEN Len(ranked) ELSE limit)

\* MilvusVectorDB.insert_documents / _insert_documents_enhanced for
\* documents whose file_type attribute is file_type ("" for None): False
\* for a collection that does not exist, else one entity per chunk, each
\* with a fresh id and the file_type of its document
insert_documents_of_type(s, name, chunks, file_type) ==
    IF ~collection_exists(s, name)
    THEN [success |-> FALSE, st |-> s]
    ELSE [success |-> TRUE,
          st |-> [s EXCEPT
                    !.store = @ \cup {[n |-> s.nextId + i, coll |-> name,
                                       content |-> chunks[i],
                                       file_type |-> file_type] : i \in DOMAIN chunks},
                    !.nextId = @ + Len(chunks)]]

\* insert_documents for the documents DocumentProcessor builds, which
\* carry no file_type attribute
insert_documents(s, name, chunks) == insert_documents_of_type(s, name, chunks, "")

\* MilvusVectorDB.delete_collection: drops the collection if it is there
db_delete_collection(s, name) ==
    [s EXCEPT !.existing = @ \ {name},
              !.store = {d \in @ : d.coll # name}]

\* MilvusVectorDB.get_collection_info: {} for a collection that does not
\* exist (the empty dictionary is the empty set here)
db_get_collection_info(s, name) ==
    IF ~collection_exists(s, name) THEN {}
    ELSE {[name |-> name,
           num_entities |-> Cardinality({d \in s.store : d.coll = name})]}

----------------------------------------------------------------------------
(* VectorClient                                                             *)

\* the methods class VectorClient defines
VectorClientMethods ==
    {"__init__", "_ensure_collection_exists", "upload", "_preprocess_query",
     "query", "get_collection_info", "delete_collection", "test_connection"}

\* _ensure_collection_exists without the final `self._initialized = True`
ensure_never_marks_initialized(s, fault) ==
    IF s.initialized
    THEN [st |-> s, raised |-> FALSE, error |-> "", trace |-> <<>>]
    ELSE IF fault = "get_dimension"
    THEN [st |-> s, raised |-> TRUE, error |-> "CollaboratorError",
          trace |-> <<"get_dimension">>]
    ELSE IF fault = "collection_exists"
    THEN [st |-> s, raised |-> TRUE, error |-> "CollaboratorError",
          trace |-> <<"get_dimension", "collection_exists">>]
    ELSE IF ~collection_exists(s, s.collection_name)
    THEN IF fault = "create_collection"
         THEN [st |-> s, raised |-> TRUE, error |-> "CollaboratorError",
               trace |-> <<"get_dimension", "collection_exists", "create_collection">>]
         ELSE LET created == create_collection(s, s.collection_name, fault)
              IN  [st |-> created.st, raised |-> ~created.success,
                   error |-> IF created.success THEN "" ELSE "RuntimeError",
                   trace |-> <<"get_dimension", "collection_exists",
                               "create_collection">>]
    ELSE [st |-> s, raised |-> FALSE, error |-> "",
          trace |-> <<"get_dimension", "collection_exists">>]

\* _ensure_collection_exists without the `if not success: raise RuntimeError`
ensure_ignores_create_failure(s, fault) ==
    IF s.initialized
    THEN [st |-> s, raised |-> FALSE, error |-> "", trace |-> <<>>]
    ELSE IF fault = "get_dimension"
    THEN [st |-> s, raised |-> TRUE, error |-> "CollaboratorError",
          trace |-> <<"get_dimension">>]
    ELSE IF fault = "collection_exists"
    THEN [st |-> s, raised |-> TRUE, error |-> "CollaboratorError",
          trace |-> <<"get_dimension", "collection_exists">>]
    ELSE IF ~collection_exists(s, s.collection_name)
    THEN IF fault = "create_collection"
         THEN [st |-> s, raised |-> TRUE, error |-> "CollaboratorError",
               trace |-> <<"get_dimension", "collection_exists", "create_collection">>]
         ELSE [st |-> [create_collection(s, s.collection_name, fault).st
                         EXCEPT !.initialized = TRUE],
               raised |-> FALSE, error |-> "",
               trace |-> <<"get_dimension", "collection_exists", "create_collection">>]
    ELSE [st |-> [s EXCEPT !.initialized = TRUE], raised |-> FALSE, error |-> "",
          trace |-> <<"get_dimension", "collection_exists">>]

\* VectorClient._ensure_collection_exists.  raised: the call ended in an
\* exception; error: "RuntimeError" is the client's own "Failed to create
\* collection", "CollaboratorError" an exception of the collaborator
ensure_collection_exists(s, fault) ==
    IF s.initialized
    THEN [st |-> s, raised |-> FALSE, error |-> "", trace |-> <<>>]
    ELSE IF fault = "get_dimension"
    THEN [st |-> s, raised |-> TRUE, error |-> "CollaboratorError",
          trace |-> <<"get_dimension">>]
    ELSE IF fault = "collection_exists"
    THEN [st |-> s, raised |-> TRUE, error |-> "CollaboratorError",
          trace |-> <<"get_dimension", "collection_exists">>]
    ELSE IF ~collection_exists(s, s.collection_name)
    THEN IF fault = "create_collection"
         THEN [st |-> s, raised |-> TRUE, error |-> "CollaboratorError",
               trace |-> <<"get_dimension", "collection_exists", "create_collection">>]
         ELSE LET created == create_collection(s, s.collection_name, fault)
              IN  IF ~created.success
                  THEN [st |-> created.st, raised |-> TRUE, error |-> "RuntimeError",
                        trace |-> <<"get_dimension", "collection_exists",
                                    "create_collection">>]
                  ELSE [st |-> [created.st EXCEPT !.initialized = TRUE],
                        raised |-> FALSE, error |-> "",
                        trace |-> <<"get_dimension", "collection_exists",
                                    "create_collection">>]
    ELSE [st |-> [s EXCEPT !.initialized = TRUE], raised |-> FALSE, error |-> "",
          trace |-> <<"get_dimension", "collection_exists">>]

\* the list comprehension of query with `>` for `>=`
filter_results_strict(res, min_score) ==
    SelectSeq(res, LAMBDA r : r.score > min_score)

\* the list comprehension of query: the results with score >= min_score
filter_results(res, min_score) ==
    SelectSeq(res, LAMBDA r : r.score >= min_score)

\* query with self._ensure_collection_exists() called before the try block
query_ensures_outside_try(s, query_text, limit, min_score, fault) ==
    LET e == ensure_collection_exists(s, fault)
    IN  IF e.raised
        THEN [st |-> e.st, hits |-> <<>>, raised |-> TRUE, error |-> e.error,
              trace |-> e.trace]
        ELSE IF fault \in {"embed_text", "search"}
        THEN [st |-> e.st, hits |-> <<>>, raised |-> FALSE,
              error |-> "CollaboratorError",
              trace |-> e.trace \o (IF fault = "search"
                                    THEN <<"embed_text", "search">>
                                    ELSE <<"embed_text">>)]
        ELSE [st |-> e.st,
              hits |-> filter_results(search(e.st, e.st.collection_name,
                                             preprocess_query(query_text), limit),
                                      min_score),
              raised |-> FALSE, error |-> "",
              trace |-> e.trace \o <<"embed_text", "search">>]

\* VectorClient.query.  hits: the returned list; raised: an exception left
\* the method; error: the exception the except clause caught
query(s, query_text, limit, min_score, fault) ==
    LET e == ensure_collection_exists(s, fault)
    IN  IF e.raised
        THEN [st |-> e.st, hits |-> <<>>, raised |-> FALSE, error |-> e.error,
              trace |-> e.trace]
        ELSE IF fault = "embed_text"
        THEN [st |-> e.st, hits |-> <<>>, raised |-> FALSE,
              error |-> "CollaboratorError", trace |-> e.trace \o <<"embed_text">>]
        ELSE IF fault = "search"
        THEN [st |-> e.st, hits |-> <<>>, raised |-> FALSE,
              error |-> "CollaboratorError",
              trace |-> e.trace \o <<"embed_text", "search">>]
        ELSE LET processed_query == preprocess_query(query_text)
                 res == search(e.st, e.st.collection_name, processed_query, limit)
             IN  [st |-> e.st, hits |-> filter_results(res, min_score),
                  raised |-> FALSE, error |-> "",
                  trace |-> e.trace \o <<"embed_text", "search">>]

\* upload as it would be if a file without documents counted as uploaded
upload_empty_is_success(s, file_path, fault) ==
    LET e == ensure_collection_exists(s, fault)
        documents == FileChunks(file_path)
    IN  IF e.raised \/ fault \in {"process_file", "embed_texts", "insert_documents",
                                   "insert_documents_false"}
           \/ file_path \notin FilesOnDisk
        THEN [st |-> e.st, ok |-> FALSE, raised |-> FALSE, error |-> "CollaboratorError",
              inserted |-> "not_called", trace |-> e.trace]
        ELSE IF documents = <<>>
        THEN [st |-> e.st, ok |-> TRUE, raised |-> FALSE, error |-> "",
              inserted |-> "not_called",
              trace |-> e.trace \o <<"process_file">>]
        ELSE LET ins == insert_documents(e.st, e.st.collection_name, documents)
             IN  [st |-> ins.st, ok |-> ins.success, raised |-> FALSE, error |-> "",
                  inserted |-> IF ins.success THEN "true" ELSE "false",
                  trace |-> e.trace \o <<"process_file", "embed_texts",
                                         "insert_documents">>]

\* VectorClient.upload.  ok: the returned bool; inserted: what the call of
\* insert_documents did ("not_called", "true", "false" or "raised")
upload(s, file_path, fault) ==
    LET e == ensure_collection_exists(s, fault)
        documents == FileChunks(file_path)
    IN  IF e.raised
        THEN [st |-> e.st, ok |-> FALSE, raised |-> FALSE, error |-> e.error,
              inserted |-> "not_called", trace |-> e.trace]
        ELSE IF fault = "process_file" \/ file_path \notin FilesOnDisk
        THEN [st |-> e.st, ok |-> FALSE, raised |-> FALSE,
              error |-> "CollaboratorError", inserted |-> "not_called",
              trace |-> e.trace \o <<"process_file">>]
        ELSE IF documents = <<>>
        THEN [st |-> e.st, ok |-> FALSE, raised |-> FALSE, error |-> "",
              inserted |-> "not_called",
              trace |-> e.trace \o <<"process_file">>]
        ELSE IF fault = "embed_texts"
        THEN [st |-> e.st, ok |-> FALSE, raised |-> FALSE,
              error |-> "CollaboratorError", inserted |-> "not_called",
              trace |-> e.trace \o <<"process_file", "embed_texts">>]
        ELSE IF fault = "insert_documents"
        THEN [st |-> e.st, ok |-> FALSE, raised |-> FALSE,
              error |-> "CollaboratorError", inserted |-> "raised",
              trace |-> e.trace \o <<"process_file", "embed_texts", "insert_documents">>]
        ELSE IF fault = "insert_documents_false"
        THEN [st |-> e.st, ok |-> FALSE, raised |-> FALSE, error |-> "",
              inserted |-> "false",
              trace |-> e.trace \o <<"process_file", "embed_texts", "insert_documents">>]
        ELSE LET ins == insert_documents(e.st, e.st.collection_name, documents)
             IN  [st |-> ins.st, ok |-> ins.success, raised |-> FALSE, error |-> "",
                  inserted |-> IF ins.success THEN "true" ELSE "false",
                  trace |-> e.trace \o <<"process_file", "embed_texts",
                                         "insert_documents">>]

\* VectorClient.get_collection_info.  info: the returned dictionary
get_collection_info(s, fault) ==
    LET e == ensure_collection_exists(s, fault)
    IN  IF e.raised
        THEN [st |-> e.st, info |-> {}, raised |-> FALSE, error |-> e.error,
              trace |-> e.trace]
        ELSE IF fault = "get_collection_info"
        THEN [st |-> e.st, info |-> {}, raised |-> FALSE,
              error |-> "CollaboratorError",
              trace |-> e.trace \o <<"get_collection_info">>]
        ELSE [st |-> e.st, info |-> db_get_collection_info(e.st, e.st.collection_name),
              raised |-> FALSE, error |-> "",
              trace |-> e.trace \o <<"get_collection_info">>]

\* delete_collection without `self._initialized = False`
delete_collection_keeps_flag(s, fault) ==
    IF fault = "delete_collection"
    THEN [st |-> s, ok |-> FALSE, raised |-> FALSE, error |-> "CollaboratorError",
          trace |-> <<"delete_collection">>]
    ELSE IF fault = "delete_collection_false"
    THEN [st |-> s, ok |-> FALSE, raised |-> FALSE, error |-> "",
          trace |-> <<"delete_collection">>]
    ELSE [st |-> db_delete_collection(s, s.collection_name),
          ok |-> TRUE, raised |-> FALSE, error |-> "",
          trace |-> <<"delete_collection">>]

\* VectorClient.delete_collection.  ok: the returned bool
delete_collection(s, fault) ==
    IF fault = "delete_collection"
    THEN [st |-> s, ok |-> FALSE, raised |-> FALSE, error |-> "CollaboratorError",
          trace |-> <<"delete_collection">>]
    ELSE IF fault = "delete_collection_false"
    THEN [st |-> s, ok |-> FALSE, raised |-> FALSE, error |-> "",
          trace |-> <<"delete_collection">>]
    ELSE [st |-> [db_delete_collection(s, s.collection_name)
                    EXCEPT !.initialized = FALSE],
          ok |-> TRUE, raised |-> FALSE, error |-> "",
          trace |-> <<"delete_collection">>]

----------------------------------------------------------------------------
(* RagAPI                                                                   *)

\* document ids a caller passes: ids of entities, an id of no entity,
\* the empty string and a whitespace-only string
BlankIds == {"", "  "}
DocIdInputs == {DocIdOf(n) : n \in 1..MaxDocs} \cup {"nonexistent_doc_id"} \cup BlankIds

\* `not document_id or not document_id.strip()`
IsBlankId(document_id) == document_id \in BlankIds

\* RagAPI.query.  The SearchResults are reformatted into dictionaries that
\* keep id and score; an exception of the client is caught
rag_query(s, question, limit, min_score, fault) ==
    IF IsBlank(question)
    THEN [st |-> s, hits |-> <<>>, raised |-> FALSE, error |-> "", trace |-> <<>>]
    ELSE LET r == query(s, Strip(question), limit, min_score, fault)
         IN  IF r.raised
             THEN [r EXCEPT !.hits = <<>>, !.raised = FALSE]
             ELSE r

\* RagAPI.add_document / _add_file.  ok: result["success"];
\* error: result["error"]
add_document(s, file_path, fault) ==
    IF file_path \notin FilesOnDisk
    THEN [st |-> s, ok |-> FALSE, raised |-> FALSE, error |-> "File not found",
          trace |-> <<>>]
    ELSE LET u == upload(s, file_path, fault)
         IN  IF u.raised
             THEN [u EXCEPT !.ok = FALSE, !.raised = FALSE]
             ELSE IF u.ok
             THEN [u EXCEPT !.error = ""]
             ELSE [u EXCEPT !.error = "Upload failed"]

\* RagAPI.remove_document.  ok: result["success"]; error: result["error"].
\* self.vector_client.get_document_by_id and .remove_document are attribute
\* lookups on VectorClient: a method the class lacks raises AttributeError,
\* which the except clause turns into a failure result
remove_document(s, document_id) ==
    LET found == {d \in s.store : d.coll = s.collection_name /\ d_id(d) = document_id}
    IN  IF IsBlankId(document_id)
        THEN [st |-> s, ok |-> FALSE, raised |-> FALSE,
              error |-> "Document ID cannot be empty", trace |-> <<>>]
        ELSE IF "get_document_by_id" \notin VectorClientMethods
        THEN [st |-> s, ok |-> FALSE, raised |-> FALSE,
              error |-> "AttributeError", trace |-> <<>>]
        ELSE IF found = {}
        THEN [st |-> s, ok |-> FALSE, raised |-> FALSE,
              error |-> "not found", trace |-> <<"get_document_by_id">>]
        ELSE IF "remove_document" \notin VectorClientMethods
        THEN [st |-> s, ok |-> FALSE, raised |-> FALSE,
              error |-> "AttributeError", trace |-> <<"get_document_by_id">>]
        ELSE [st |-> [s EXCEPT !.store = @ \ found], ok |-> TRUE, raised |-> FALSE,
              error |-> "", trace |-> <<"get_document_by_id", "remove_documents">>]

----------------------------------------------------------------------------
(* Spec: the public operations of one RagAPI / VectorClient, called one     *)
(* after the other                                                          *)

EnsureFaults ==
    {"get_dimension", "collection_exists", "create_collection",
     "create_collection_false"}
QueryFaults == {"none", "embed_text", "search"} \cup EnsureFaults
RagQueryFaults == {"none", "search", "create_collection_false"}
UploadFaults ==
    {"none", "process_file", "embed_texts", "insert_documents",
     "insert_documents_false"} \cup EnsureFaults
AddFaults == {"none", "process_file", "insert_documents_false", "create_collection_false"}
InfoFaults == {"none", "get_collection_info"} \cup EnsureFaults
DeleteFaults == {"none", "delete_collection", "delete_collection_false"}

NoOp ==
    [op |-> "none", text |-> <<>>, arg |-> "", limit |-> 0, min_score |-> 0,
     fault |-> "none", hits |-> <<>>, ok |-> FALSE, info |-> {}, error |-> "",
     raised |-> FALSE, inserted |-> "not_called", trace |-> <<>>]

InitClient ==
    /\ collection_name = "rag_collection"
    /\ initialized = FALSE
    /\ existing \in SUBSET CollNames
    /\ store = {}
    /\ nextId = 0
    /\ last = NoOp
    /\ ensured = FALSE
    /\ seen = {}

SetClient(st) ==
    /\ collection_name' = st.collection_name
    /\ initialized' = st.initialized
    /\ existing' = st.existing
    /\ store' = st.store
    /\ nextId' = st.nextId

HitIds(hits) == {hits[i].id : i \in DOMAIN hits}

\* the ensure step of an operation ran to its end
EnsureSucceeded(fault) == ~ensure_collection_exists(ClientState, fault).raised

Query(text, limit, min_score, fault) ==
    LET r == query(ClientState, text, limit, min_score, fault)
    IN  /\ SetClient(r.st)
        /\ last' = [NoOp EXCEPT !.op = "query", !.text = text, !.limit = limit,
                       !.min_score = min_score, !.fault = fault, !.hits = r.hits,
                       !.error = r.error, !.raised = r.raised, !.trace = r.trace]
        /\ ensured' = (ensured \/ EnsureSucceeded(fault))
        /\ seen' = seen \cup HitIds(r.hits)

RagQuery(text, limit, min_score, fault) ==
    LET r == rag_query(ClientState, text, limit, min_score, fault)
    IN  /\ SetClient(r.st)
        /\ last' = [NoOp EXCEPT !.op = "rag_query", !.text = text, !.limit = limit,
                       !.min_score = min_score, !.fault = fault, !.hits = r.hits,
                       !.error = r.error, !.raised = r.raised, !.trace = r.trace]
        /\ ensured' = (ensured \/ (~IsBlank(text) /\ EnsureSucceeded(fault)))
        /\ seen' = seen \cup HitIds(r.hits)

Upload(file_path, fault) ==
    LET r == upload(ClientState, file_path, fault)
    IN  /\ r.st.nextId <= MaxDocs
        /\ SetClient(r.st)
        /\ last' = [NoOp EXCEPT !.op = "upload", !.arg = file_path, !.fault = fault,
                       !.ok = r.ok, !.error = r.error, !.raised = r.raised,
                       !.inserted = r.inserted, !.trace = r.trace]
        /\ ensured' = (ensured \/ EnsureSucceeded(fault))
        /\ UNCHANGED seen

AddDocument(file_path, fault) ==
    LET r == add_document(ClientState, file_path, fault)
    IN  /\ r.st.nextId <= MaxDocs
        /\ SetClient(r.st)
        /\ last' = [NoOp EXCEPT !.op = "add_document", !.arg = file_path,
                       !.fault = fault, !.ok = r.ok, !.error = r.error,
                       !.raised = r.raised, !.trace = r.trace]
        /\ ensured' = (ensured \/ (file_path \in FilesOnDisk /\ EnsureSucceeded(fault)))
        /\ UNCHANGED seen

GetCollectionInfo(fault) ==
    LET r == get_collection_info(ClientState, fault)
    IN  /\ SetClient(r.st)
        /\ last' = [NoOp EXCEPT !.op = "get_collection_info", !.fault = fault,
                       !.info = r.info, !.error = r.error, !.raised = r.raised,
                       !.trace = r.trace]
        /\ ensured' = (ensured \/ EnsureSucceeded(fault))
        /\ UNCHANGED seen

DeleteCollection(fault) ==
    LET r == delete_collection(ClientState, fault)
    IN  /\ SetClient(r.st)
        /\ last' = [NoOp EXCEPT !.op = "delete_collection", !.fault = fault,
                       !.ok = r.ok, !.error = r.error, !.raised = r.raised,
                       !.trace = r.trace]
        /\ ensured' = FALSE
        /\ UNCHANGED seen

RemoveDocument(document_id) ==
    LET r == remove_document(ClientState, document_id)
    IN  /\ SetClient(r.st)
        /\ last' = [NoOp EXCEPT !.op = "remove_document", !.arg = document_id,
                       !.ok = r.ok, !.error = r.error, !.raised = r.raised,
                       !.trace = r.trace]
        /\ UNCHANGED <<ensured, seen>>


ConcIdle ==
    /\ cpc = [c \in 1..NumCallers |-> "done"]
    /\ cexists = [c \in 1..NumCallers |-> FALSE]
    /\ cfailed = [c \in 1..NumCallers |-> "no"]
    /\ createCalls = 0

NoReturn ==
    [success |-> FALSE, error |-> "", total |-> 0, successful |-> 0, failed |-> 0,
     results |-> <<>>, errors |-> <<>>, errors_key |-> "absent"]

BatchIdle ==
    /\ bpc = "idle"
    /\ bop = "add"
    /\ items = <<>>
    /\ idx = 0
    /\ results = <<>>
    /\ successful_count = 0
    /\ failed_count = 0
    /\ errors = <<>>
    /\ processed = <<>>
    /\ ret = NoReturn

FilterIdle ==
    /\ fpc = "load"
    /\ ftext = <<>>
    /\ flimit = 0
    /\ ffault = "none"
    /\ fmin = 0
    /\ fbase = <<>>
    /\ ffiltered = <<>>

ChunkIdle ==
    /\ kpc = "idle"
    /\ kraw = <<>>
    /\ chunk_size = 0
    /\ overlap = 0
    /\ ktext = <<>>
    /\ kstart = 0
    /\ kchunks = <<>>
    /\ kstarts = <<>>
    /\ kforced = 0
    /\ chunk_index = 0

NoQA ==
    [op |-> "none", question |-> <<>>, max_sources |-> 0, min_score |-> 0,
     expand_query |-> FALSE, fault |-> "none", raised |-> FALSE, trace |-> <<>>,
     processed_query |-> <<>>, candidates |-> <<>>, embedded |-> <<>>,
     response |-> [question |-> <<>>, answer |-> "", sources |-> <<>>,
                   confidence_score |-> 0, suggestions |-> <<>>, error |-> "",
                   reason |-> "", question_type |-> ""]]

NoDQ == [query |-> <<>>, called |-> FALSE, type |-> ""]

NoCS ==
    [sources |-> <<>>, question_type |-> "", called |-> FALSE, score |-> 0,
     boosted |-> FALSE]

QAIdle ==
    /\ qa = NoQA
    /\ dq = NoDQ
    /\ cs = NoCS

PureIdle == ChunkIdle /\ QAIdle

Init == InitClient /\ ConcIdle /\ BatchIdle /\ FilterIdle /\ PureIdle

Next ==
    \/ /\ \E text \in QueryTexts, min_score \in {0, 4}, fault \in QueryFaults :
             Query(text, MaxLimit, min_score, fault)
       /\ UNCHANGED <<concVars, batchVars, filterVars, pureVars>>
    \/ /\ \E text \in QueryTexts, fault \in RagQueryFaults :
             RagQuery(text, MaxLimit, 0, fault)
       /\ UNCHANGED <<concVars, batchVars, filterVars, pureVars>>
    \/ /\ \E file_path \in FilePaths, fault \in UploadFaults : Upload(file_path, fault)
       /\ UNCHANGED <<concVars, batchVars, filterVars, pureVars>>
    \/ /\ \E file_path \in FilePaths, fault \in AddFaults :
             AddDocument(file_path, fault)
       /\ UNCHANGED <<concVars, batchVars, filterVars, pureVars>>
    \/ /\ \E fault \in InfoFaults : GetCollectionInfo(fault)
       /\ UNCHANGED <<concVars, batchVars, filterVars, pureVars>>
    \/ /\ \E fault \in DeleteFaults : DeleteCollection(fault)
       /\ UNCHANGED <<concVars, batchVars, filterVars, pureVars>>
    \/ /\ \E document_id \in DocIdInputs : RemoveDocument(document_id)
       /\ UNCHANGED <<concVars, batchVars, filterVars, pureVars>>

Spec == Init /\ [][Next]_vars

----------------------------------------------------------------------------
(* Claims about the operations called one after the other (Spec)            *)

EnsureCalls == {"get_dimension", "collection_exists", "create_collection"}

CountIn(trace, name) == Cardinality({i \in DOMAIN trace : trace[i] = name})

\* C3: once the ensure step of one call has succeeded, no later query,
\* upload, add or get_collection_info invokes get_dimension,
\* collection_exists or create_collection again, as long as no
\* delete_collection is called; and no call runs the existence check twice.
C3_ExistenceCheckRunsOnce ==
    [][ /\ (ensured /\ last'.op # "delete_collection")
            => Range(last'.trace) \cap EnsureCalls = {}
        /\ CountIn(last'.trace, "collection_exists") <= 1 ]_vars

\* a query answered from the store after an earlier call provisioned the
\* collection, with no ensure call in it
C3_Witness ==
    /\ ensured /\ initialized
    /\ last.op = "query"
    /\ last.trace = <<"embed_text", "search">>
    /\ last.hits # <<>>

\* C6: VectorClient.query never lets an exception out, and whenever a
\* collaborator call of it raised (or the collection could not be created)
\* it returns the empty list.
C6_QueryNeverRaises ==
    last.op = "query" =>
        /\ ~last.raised
        /\ (last.error # "" => last.hits = <<>>)

\* search raised on a provisioned, non-empty collection
C6_Witness ==
    /\ last.op = "query"
    /\ last.fault = "search"
    /\ last.trace = <<"embed_text", "search">>
    /\ last.error = "CollaboratorError"
    /\ \E d \in store : d.coll = collection_name

\* the first use found the collection absent and create_collection
\* reported failure
CreateFailedOnFirstUse ==
    /\ last.op \in {"query", "upload", "get_collection_info"}
    /\ last.fault = "create_collection_false"
    /\ "create_collection" \in Range(last.trace)

C8_BlankQueryCallsNothing ==
    (last.op \in {"query", "rag_query"} /\ IsBlank(last.text)) =>
        /\ last.hits = <<>>
        /\ last.trace = <<>>

\* C10: remove_document(d), for a d that a query has returned and that is
\* still stored, succeeds and leaves no entity with id d behind (so that no
\* later query returns it).
C10_RemoveAfterQuery ==
    [][ ( /\ last'.op = "remove_document"
          /\ last'.arg \in seen
          /\ \E d \in store : d.coll = collection_name /\ d_id(d) = last'.arg )
        => ( /\ last'.ok
             /\ \A d \in store' : d_id(d) # last'.arg ) ]_vars

\* C11: VectorClient.upload never raises and returns True exactly when
\* insert_documents was called and returned True; it returns False when the
\* processor yields no document, when file processing raises, when embedding
\* raises and when insert_documents returns False.
C11_UploadReturnsInsertOutcome ==
    last.op = "upload" =>
        /\ ~last.raised
        /\ last.ok <=> (last.inserted = "true")
        /\ (last.inserted # "not_called") <=> ("insert_documents" \in Range(last.trace))
        /\ (FileChunks(last.arg) = <<>>) => (~last.ok /\ last.inserted = "not_called")
        /\ last.fault \in {"process_file", "embed_texts"} =>
              (~last.ok /\ last.inserted = "not_called")
        /\ last.fault = "insert_documents_false" => ~last.ok

\* insert_documents was called for a file with documents and returned False
C11_Witness ==
    /\ last.op = "upload"
    /\ last.fault = "insert_documents_false"
    /\ last.inserted = "false"
    /\ ~last.ok

----------------------------------------------------------------------------
(* SpecConc: NumCallers threads enter _ensure_collection_exists of one      *)
(* unprovisioned VectorClient; a thread switch may fall between any two     *)
(* collaborator calls.  Each call of the storage is atomic.                 *)

Callers == 1..NumCallers

InitConc ==
    /\ InitClient
    /\ cpc = [c \in Callers |-> "start"]
    /\ cexists = [c \in Callers |-> FALSE]
    /\ cfailed = [c \in Callers |-> "no"]
    /\ createCalls = 0
    /\ BatchIdle /\ FilterIdle /\ PureIdle

\* `if not self._initialized:`
CReadFlag(c) ==
    /\ cpc[c] = "start"
    /\ cpc' = [cpc EXCEPT ![c] = IF initialized THEN "done" ELSE "get_dimension"]
    /\ UNCHANGED <<clientVars, cexists, cfailed, createCalls>>

\* `dimension = self.embedding_service.get_dimension()`
CGetDimension(c) ==
    /\ cpc[c] = "get_dimension"
    /\ cpc' = [cpc EXCEPT ![c] = "collection_exists"]
    /\ UNCHANGED <<clientVars, cexists, cfailed, createCalls>>

\* `if not self.vector_db.collection_exists(self.collection_name):`
CCollectionExists(c) ==
    /\ cpc[c] = "collection_exists"
    /\ cexists' = [cexists EXCEPT ![c] = collection_exists(ClientState, collection_name)]
    /\ cpc' = [cpc EXCEPT ![c] = IF cexists'[c] THEN "set_flag" ELSE "create_collection"]
    /\ UNCHANGED <<clientVars, cfailed, createCalls>>

\* `success = self.vector_db.create_collection(...)` and
\* `if not success: raise RuntimeError(error_msg)`
CCreateCollection(c, fault) ==
    LET created == create_collection(ClientState, collection_name, fault)
    IN  /\ cpc[c] = "create_collection"
        /\ createCalls' = createCalls + 1
        /\ existing' = created.st.existing
        /\ cpc' = [cpc EXCEPT ![c] = IF created.success THEN "set_flag" ELSE "failed"]
        /\ cfailed' = [cfailed EXCEPT ![c] =
                         IF created.success THEN "no"
                         ELSE IF collection_name \in existing THEN "already_exists"
                         ELSE "build_failed"]
        /\ UNCHANGED <<collection_name, initialized, store, nextId, cexists>>

\* `self._initialized = True`
CSetFlag(c) ==
    /\ cpc[c] = "set_flag"
    /\ initialized' = TRUE
    /\ cpc' = [cpc EXCEPT ![c] = "done"]
    /\ UNCHANGED <<collection_name, existing, store, nextId, cexists, cfailed,
                   createCalls>>

NextConc ==
    \/ /\ \E c \in Callers : CReadFlag(c)
       /\ UNCHANGED <<obsVars, batchVars, filterVars, pureVars>>
    \/ /\ \E c \in Callers : CGetDimension(c)
       /\ UNCHANGED <<obsVars, batchVars, filterVars, pureVars>>
    \/ /\ \E c \in Callers : CCollectionExists(c)
       /\ UNCHANGED <<obsVars, batchVars, filterVars, pureVars>>
    \/ /\ \E c \in Callers, fault \in {"none", "create_collection_false"} :
             CCreateCollection(c, fault)
       /\ UNCHANGED <<obsVars, batchVars, filterVars, pureVars>>
    \/ /\ \E c \in Callers : CSetFlag(c)
       /\ UNCHANGED <<obsVars, batchVars, filterVars, pureVars>>

SpecConc == InitConc /\ [][NextConc]_vars

\* C4: with a create_collection that returns True for a collection that is
\* already there, no caller fails because another caller created the
\* collection first (a caller fails only when the collection was absent
\* and could not be built), and once every caller has finished the flag is
\* set and the collection exists.
C4_ConcurrentEnsureSucceeds ==
    /\ \A c \in Callers : cfailed[c] \in {"no", "build_failed"}
    /\ (\A c \in Callers : cpc[c] = "done")
         => (initialized /\ collection_name \in existing)

\* two callers both found the collection absent, both called
\* create_collection, and both finished
C4_Witness ==
    /\ createCalls >= 2
    /\ \A c \in Callers : cpc[c] = "done" /\ ~cexists[c]
    /\ initialized

\* C5: create_collection is invoked at most once for the collection.
C5_CreateInvokedAtMostOnce == createCalls <= 1

----------------------------------------------------------------------------
(* SpecBatch: RagAPI.batch_add_documents and batch_remove_documents.  The   *)
(* for loop takes one item per step; the step that takes the last item      *)
(* also builds the returned dictionary.                                     *)

BatchFaults == {"none", "insert_documents_false", "raise"}

RECURSIVE SeqsUpTo(_, _)
SeqsUpTo(S, n) ==
    IF n = 0 THEN {<<>>}
    ELSE LET shorter == SeqsUpTo(S, n - 1)
         IN  shorter \cup {Append(q, x) : q \in shorter, x \in S}

\* the early return as it would be if an empty list counted as a success
batch_empty_return_as_success(message) ==
    [success |-> TRUE, error |-> "", total |-> 0, successful |-> 0,
     failed |-> 0, results |-> <<>>, errors |-> <<>>, errors_key |-> "absent"]

\* the early return for an empty list: no "errors" and no "message" key
batch_empty_return(message) ==
    [success |-> FALSE, error |-> message, total |-> 0, successful |-> 0,
     failed |-> 0, results |-> <<>>, errors |-> <<>>, errors_key |-> "absent"]

\* the call self.add_document(file_path) / self.remove_document(document_id)
\* of the loop body; "raise": the call itself ends in an exception
batch_call(s, op, item, fault) ==
    IF fault = "raise"
    THEN [st |-> s, ok |-> FALSE, raised |-> TRUE, error |-> "Exception",
          trace |-> <<>>]
    ELSE IF op = "add" THEN add_document(s, item, fault)
    ELSE remove_document(s, item)

\* the except branch of the loop body without `results.append({...})`
batch_iteration_drops_exception_result(acc, item, r) ==
    IF r.raised
    THEN [acc EXCEPT !.failed_count = @ + 1,
                     !.errors = Append(@, <<"Exception", item, r.error>>)]
    ELSE IF r.ok
    THEN [acc EXCEPT !.results = Append(@, [success |-> TRUE, item |-> item,
                                            error |-> ""]),
                     !.successful_count = @ + 1]
    ELSE [acc EXCEPT !.results = Append(@, [success |-> FALSE, item |-> item,
                                            error |-> r.error]),
                     !.failed_count = @ + 1,
                     !.errors = Append(@, <<"Failed", item, r.error>>)]

\* the except branch of the loop body without `failed_count += 1`
batch_iteration_uncounted_exception(acc, item, r) ==
    IF r.raised
    THEN [acc EXCEPT !.results = Append(@, [success |-> FALSE, item |-> item,
                                            error |-> r.error]),
                     !.errors = Append(@, <<"Exception", item, r.error>>)]
    ELSE IF r.ok
    THEN [acc EXCEPT !.results = Append(@, [success |-> TRUE, item |-> item,
                                            error |-> ""]),
                     !.successful_count = @ + 1]
    ELSE [acc EXCEPT !.results = Append(@, [success |-> FALSE, item |-> item,
                                            error |-> r.error]),
                     !.failed_count = @ + 1,
                     !.errors = Append(@, <<"Failed", item, r.error>>)]

\* one pass of the loop body, r being the outcome of the call
batch_iteration(acc, item, r) ==
    IF r.raised
    THEN [acc EXCEPT !.failed_count = @ + 1,
                     !.errors = Append(@, <<"Exception", item, r.error>>),
                     !.results = Append(@, [success |-> FALSE, item |-> item,
                                            error |-> r.error])]
    ELSE IF r.ok
    THEN [acc EXCEPT !.results = Append(@, [success |-> TRUE, item |-> item,
                                            error |-> ""]),
                     !.successful_count = @ + 1]
    ELSE [acc EXCEPT !.results = Append(@, [success |-> FALSE, item |-> item,
                                            error |-> r.error]),
                     !.failed_count = @ + 1,
                     !.errors = Append(@, <<"Failed", item, r.error>>)]

\* the dictionary returned after the loop
batch_return(list, acc) ==
    [success |-> (acc.failed_count = 0), error |-> "", total |-> Len(list),
     successful |-> acc.successful_count, failed |-> acc.failed_count,
     results |-> acc.results, errors |-> acc.errors,
     errors_key |-> IF acc.errors # <<>> THEN "list" ELSE "None"]

\* entry of batch_add_documents / batch_remove_documents, up to the loop
BatchStart(op, list) ==
    /\ bpc \in {"idle", "done"}
    /\ bop' = op
    /\ items' = list
    /\ idx' = 0
    /\ results' = <<>>
    /\ successful_count' = 0
    /\ failed_count' = 0
    /\ errors' = <<>>
    /\ processed' = <<>>
    /\ IF list = <<>>
       THEN /\ bpc' = "done"
            /\ ret' = batch_empty_return(IF op = "add" THEN "No file paths provided"
                                         ELSE "No document IDs provided")
       ELSE /\ bpc' = "loop"
            /\ ret' = NoReturn
    /\ UNCHANGED clientVars

BatchAddDocuments(file_paths) == BatchStart("add", file_paths)

BatchRemoveDocuments(document_ids) == BatchStart("remove", document_ids)

\* one pass of the for loop; after the last item, the return
BatchItem(fault) ==
    /\ bpc = "loop"
    /\ LET item == items[idx + 1]
           r    == batch_call(ClientState, bop, item, fault)
           acc  == batch_iteration(
                       [results |-> results, successful_count |-> successful_count,
                        failed_count |-> failed_count, errors |-> errors], item, r)
       IN  /\ r.st.nextId <= MaxDocs
           /\ SetClient(r.st)
           /\ results' = acc.results
           /\ successful_count' = acc.successful_count
           /\ failed_count' = acc.failed_count
           /\ errors' = acc.errors
           /\ processed' = Append(processed,
                  [item |-> item,
                   outcome |-> IF r.raised THEN "raised"
                               ELSE IF r.ok THEN "ok" ELSE "failed"])
           /\ idx' = idx + 1
           /\ IF idx + 1 = Len(items)
              THEN bpc' = "done" /\ ret' = batch_return(items, acc)
              ELSE bpc' = "loop" /\ ret' = ret
    /\ UNCHANGED <<bop, items>>

NextBatch ==
    \/ /\ \E file_paths \in SeqsUpTo(FilePaths, MaxBatch) :
             BatchAddDocuments(file_paths)
       /\ UNCHANGED <<obsVars, concVars, filterVars, pureVars>>
    \/ /\ \E document_ids \in SeqsUpTo(DocIdInputs, MaxBatch) :
             BatchRemoveDocuments(document_ids)
       /\ UNCHANGED <<obsVars, concVars, filterVars, pureVars>>
    \/ /\ \E fault \in BatchFaults : BatchItem(fault)
       /\ UNCHANGED <<obsVars, concVars, filterVars, pureVars>>

SpecBatch == Init /\ [][NextBatch]_vars

\* C1 as stated: every returned batch result has successful + failed =
\* total and success = (failed = 0), the empty list included.
C1_BatchAccounting ==
    bpc = "done" =>
        /\ ret.successful + ret.failed = ret.total
        /\ ret.success = (ret.failed = 0)

\* C1 as amended: every returned batch result has successful + failed =
\* total = the length of the input list; for a non-empty list success =
\* (failed = 0); for the empty list success is false although failed = 0.
C1_BatchAccountingNonEmpty ==
    bpc = "done" =>
        /\ ret.successful + ret.failed = ret.total
        /\ ret.total = Len(items)
        /\ (items # <<>> => ret.success = (ret.failed = 0))
        /\ (items = <<>> => ~ret.success /\ ret.failed = 0)

\* a returned batch in which one call raised and one succeeded
C1_Witness ==
    /\ bpc = "done"
    /\ Len(items) = 2
    /\ ret.successful = 1 /\ ret.failed = 1
    /\ \E i \in DOMAIN processed : processed[i].outcome = "raised"

\* C2: for a non-empty list every item is handed to add_document /
\* remove_document exactly once and in input order, whatever the earlier
\* items did, and results[i] is the outcome of item i.
C2_EveryItemOnceInOrder ==
    /\ bpc \in {"loop", "done"} =>
          /\ Len(processed) = idx
          /\ \A i \in 1..idx : processed[i].item = items[i]
    /\ (bpc = "done" /\ items # <<>>) =>
          /\ idx = Len(items)
          /\ Len(ret.results) = Len(items)
          /\ \A i \in DOMAIN items :
                /\ ret.results[i].item = items[i]
                /\ ret.results[i].success = (processed[i].outcome = "ok")

\* the first call raised, the second was still made and succeeded
C2_Witness ==
    /\ bpc = "done"
    /\ Len(items) = 2
    /\ processed[1].outcome = "raised"
    /\ processed[2].outcome = "ok"
    /\ ret.results[2].success

----------------------------------------------------------------------------
(* SpecFilter: files are uploaded, then the same text is queried twice     *)
(* with the same limit and the same collaborator behaviour: first with      *)
(* min_score = 0, then with a threshold m.                                   *)

FilterUpload(file_path) ==
    LET r == upload(ClientState, file_path, "none")
    IN  /\ fpc = "load"
        /\ r.st.nextId <= MaxDocs
        /\ SetClient(r.st)
        /\ UNCHANGED filterVars

FilterBaseline(text, limit, fault) ==
    LET r == query(ClientState, text, limit, 0, fault)
    IN  /\ fpc = "load"
        /\ SetClient(r.st)
        /\ fpc' = "baseline"
        /\ ftext' = text
        /\ flimit' = limit
        /\ ffault' = fault
        /\ fbase' = r.hits
        /\ UNCHANGED <<fmin, ffiltered>>

FilterThreshold(m) ==
    LET r == query(ClientState, ftext, flimit, m, ffault)
    IN  /\ fpc = "baseline"
        /\ SetClient(r.st)
        /\ fpc' = "done"
        /\ fmin' = m
        /\ ffiltered' = r.hits
        /\ UNCHANGED <<ftext, flimit, ffault, fbase>>

NextFilter ==
    \/ /\ \E file_path \in FilePaths : FilterUpload(file_path)
       /\ UNCHANGED <<obsVars, concVars, batchVars, pureVars>>
    \/ /\ \E text \in QueryTexts, limit \in Limits, fault \in QueryFaults :
             FilterBaseline(text, limit, fault)
       /\ UNCHANGED <<obsVars, concVars, batchVars, pureVars>>
    \/ /\ \E m \in MinScores : FilterThreshold(m)
       /\ UNCHANGED <<obsVars, concVars, batchVars, pureVars>>

SpecFilter == Init /\ [][NextFilter]_vars

\* the hits with score >= m, in the order they have
RECURSIVE KeepAtLeast(_, _)
KeepAtLeast(hits, m) ==
    IF hits = <<>> THEN <<>>
    ELSE (IF Head(hits).score >= m THEN <<Head(hits)>> ELSE <<>>)
             \o KeepAtLeast(Tail(hits), m)

\* C9: for a threshold m >= 0, query(min_score=m) returns exactly the
\* results of query(min_score=0) whose score is >= m, in the same order.
C9_ThresholdKeepsSubsequence ==
    (fpc = "done" /\ fmin >= 0) => ffiltered = KeepAtLeast(fbase, fmin)

\* the threshold dropped the second of two results and kept the first
C9_Witness ==
    /\ fpc = "done"
    /\ fmin = 4
    /\ Len(fbase) = 2
    /\ ffiltered = <<fbase[1]>>

----------------------------------------------------------------------------
(* SpecChunk: DocumentProcessor._chunk_text, one step per iteration of its  *)
(* while loop                                                                *)

MaxWords == 3       \* words of an input text at most

ShortChunk == 10    \* `len(chunk_content) > 10`
SearchRange == 200  \* `search_range = min(200, position)`

Min(a, b) == IF a < b THEN a ELSE b
Max(a, b) == IF a > b THEN a ELSE b
SetMax(S) == CHOOSE x \in S : \A y \in S : y <= x

\* input texts: words of letters joined by separators, some with blanks
\* around them
WordLens == {1, 6, 12}
Separators ==
    { <<" ">>, <<" ", " ", " ", " ", " ">>, <<".", " ">>, <<",", " ">>,
      <<"\n">>, <<"\n", "\n", "\n", "\n">> }
Letters(n) == [i \in 1..n |-> "a"]

RECURSIVE TextsOf(_)
TextsOf(k) ==
    IF k = 1 THEN {Letters(n) : n \in WordLens}
    ELSE {t \o sep \o Letters(n) :
             t \in TextsOf(k - 1), sep \in Separators, n \in WordLens}

ChunkTexts ==
    {<<>>, <<" ">>}
        \cup UNION {TextsOf(k) : k \in 1..MaxWords}
        \cup {<<" ">> \o t \o <<" ">> : t \in TextsOf(2)}

\* (chunk_size, overlap) of the DocumentProcessor, overlap >= chunk_size included
ChunkConfigs ==
    {[size |-> sz, ov |-> ov] : sz \in {12, 16}, ov \in {0, 4, 12, 16}}

\* text[a:b] for 0 <= a
Slice(text, a, b) == SubSeq(text, a + 1, Min(b, Len(text)))

\* re.sub(r' +', ' ', text)
RECURSIVE CollapseSpaces(_)
CollapseSpaces(s) ==
    IF Len(s) < 2 THEN s
    ELSE IF s[1] = " " /\ s[2] = " " THEN CollapseSpaces(Tail(s))
    ELSE <<s[1]>> \o CollapseSpaces(Tail(s))

\* length of the longest prefix of s made of whitespace
RECURSIVE WhitespaceRun(_)
WhitespaceRun(s) ==
    IF s # <<>> /\ Head(s) \in Whitespace THEN 1 + WhitespaceRun(Tail(s)) ELSE 0

\* re.sub(r'\n\s*\n\s*\n+', '\n\n', text): a match starts at a newline and
\* runs to the last newline of the whitespace that follows, when that
\* stretch holds three newlines or more
RECURSIVE CollapseNewlines(_)
CollapseNewlines(s) ==
    IF s = <<>> THEN <<>>
    ELSE IF Head(s) # "\n" THEN <<Head(s)>> \o CollapseNewlines(Tail(s))
    ELSE LET run == WhitespaceRun(s)
             newlines == {i \in 1..run : s[i] = "\n"}
         IN  IF Cardinality(newlines) >= 3
             THEN <<"\n", "\n">>
                      \o CollapseNewlines(SubSeq(s, SetMax(newlines) + 1, Len(s)))
             ELSE <<"\n">> \o CollapseNewlines(Tail(s))

\* DocumentProcessor._normalize_text
normalize_text(text) == Strip(CollapseNewlines(CollapseSpaces(text)))

\* DocumentProcessor._find_optimal_boundary: the boundaries in priority order
Boundaries ==
    << [text |-> <<"\n", "\n">>, offset |-> 0],
       [text |-> <<"\n">>, offset |-> 0],
       [text |-> <<".", " ">>, offset |-> 2],
       [text |-> <<"!", " ">>, offset |-> 2],
       [text |-> <<"?", " ">>, offset |-> 2],
       [text |-> <<",", " ">>, offset |-> 1],
       [text |-> <<" ">>, offset |-> 0] >>

\* text[i:i+len(boundary_text)] == boundary_text
MatchesAt(text, i, boundary_text) ==
    /\ i + Len(boundary_text) <= Len(text)
    /\ SubSeq(text, i + 1, i + Len(boundary_text)) = boundary_text

\* the i of range(position, max(0, position - search_range), -1) that match
BoundaryHits(text, position, boundary_text) ==
    LET search_range == Min(SearchRange, position)
    IN  {i \in (Max(0, position - search_range) + 1)..position :
            MatchesAt(text, i, boundary_text)}

RECURSIVE find_from(_, _, _)
find_from(text, position, k) ==
    IF k > Len(Boundaries) THEN position
    ELSE LET hits == BoundaryHits(text, position, Boundaries[k].text)
         IN  IF hits # {}
             THEN SetMax(hits) + Len(Boundaries[k].text) + Boundaries[k].offset
             ELSE find_from(text, position, k + 1)

find_optimal_boundary(text, position) == find_from(text, position, 1)

\* the iteration as it would be without the forced advance
chunk_iteration_without_forced_advance(text, size, ov, st) ==
    LET end0 == st + size
        end == IF end0 < Len(text) THEN find_optimal_boundary(text, end0)
               ELSE Len(text)
        chunk_content == Strip(Slice(text, st, end))
        next_start == end - ov
    IN  [end |-> end,
         chunk_content |-> chunk_content,
         keep |-> chunk_content # <<>> /\ Len(chunk_content) > ShortChunk,
         forced |-> next_start <= st,
         next_start |-> IF next_start <= st THEN st ELSE next_start]

\* one iteration of the while loop of _chunk_text at start = st
chunk_iteration(text, size, ov, st) ==
    LET end0 == st + size
        end == IF end0 < Len(text) THEN find_optimal_boundary(text, end0)
               ELSE Len(text)
        chunk_content == Strip(Slice(text, st, end))
        next_start == end - ov
    IN  [end |-> end,
         chunk_content |-> chunk_content,
         keep |-> chunk_content # <<>> /\ Len(chunk_content) > ShortChunk,
         forced |-> next_start <= st,
         next_start |-> IF next_start <= st THEN st + Max(1, size \div 2)
                        ELSE next_start]

\* _chunk_text up to the loop: [] for a blank text, one document without
\* start_char / end_char (written -1) for a short one, else the loop is
\* entered on the normalized text
ChunkStart(text, size, ov) ==
    /\ kpc = "idle"
    /\ kraw' = text
    /\ chunk_size' = size
    /\ overlap' = ov
    /\ kstart' = 0
    /\ kstarts' = <<>>
    /\ kforced' = 0
    /\ chunk_index' = 0
    /\ IF Strip(text) = <<>>
       THEN kpc' = "done" /\ ktext' = text /\ kchunks' = <<>>
       ELSE IF Len(text) <= size
       THEN /\ kpc' = "done"
            /\ ktext' = text
            /\ kchunks' = <<[content |-> Strip(text), start_char |-> -1,
                             end_char |-> -1, chunk_index |-> 0,
                             total_chunks |-> 1,
                             keys |-> {"chunk_index", "total_chunks"}]>>
       ELSE /\ kpc' = "loop"
            /\ ktext' = normalize_text(text)
            /\ kchunks' = <<>>

\* the iteration as it would be if chunk_index grew for a skipped slice too
ChunkIteration_counting_skipped ==
    LET it == chunk_iteration(ktext, chunk_size, overlap, kstart)
    IN  /\ kpc = "loop"
        /\ kstart < Len(ktext)
        /\ kchunks' = IF it.keep
                      THEN Append(kchunks,
                               [content |-> it.chunk_content,
                                start_char |-> kstart,
                                end_char |-> it.end,
                                chunk_index |-> chunk_index,
                                total_chunks |-> -1,
                                keys |-> {"chunk_index", "start_char", "end_char",
                                          "chunk_length"}])
                      ELSE kchunks
        /\ chunk_index' = chunk_index + 1
        /\ kstart' = it.next_start
        /\ kstarts' = Append(kstarts, kstart)
        /\ kforced' = kforced + (IF it.forced THEN 1 ELSE 0)
        /\ UNCHANGED <<kpc, kraw, chunk_size, overlap, ktext>>

\* one pass of the while loop: a chunk that is kept takes the offsets, the
\* counter as its chunk_index, and no total_chunks yet (written -1)
ChunkIteration ==
    LET it == chunk_iteration(ktext, chunk_size, overlap, kstart)
    IN  /\ kpc = "loop"
        /\ kstart < Len(ktext)
        /\ kchunks' = IF it.keep
                      THEN Append(kchunks,
                               [content |-> it.chunk_content,
                                start_char |-> kstart,
                                end_char |-> it.end,
                                chunk_index |-> chunk_index,
                                total_chunks |-> -1,
                                keys |-> {"chunk_index", "start_char", "end_char",
                                          "chunk_length"}])
                      ELSE kchunks
        /\ chunk_index' = IF it.keep THEN chunk_index + 1 ELSE chunk_index
        /\ kstart' = it.next_start
        /\ kstarts' = Append(kstarts, kstart)
        /\ kforced' = kforced + (IF it.forced THEN 1 ELSE 0)
        /\ UNCHANGED <<kpc, kraw, chunk_size, overlap, ktext>>

\* the loop is left: every chunk is stamped with total_chunks = len(chunks)
ChunkReturn ==
    /\ kpc = "loop"
    /\ kstart >= Len(ktext)
    /\ kpc' = "done"
    /\ kchunks' = [i \in DOMAIN kchunks |->
                      [kchunks[i] EXCEPT !.total_chunks = Len(kchunks),
                                         !.keys = @ \cup {"total_chunks"}]]
    /\ UNCHANGED <<kraw, chunk_size, overlap, ktext, kstart, kstarts, kforced,
                   chunk_index>>

NextChunk ==
    \/ /\ \E text \in ChunkTexts, c \in ChunkConfigs : ChunkStart(text, c.size, c.ov)
       /\ UNCHANGED <<clientVars, obsVars, concVars, batchVars, filterVars, qaVars>>
    \/ /\ ChunkIteration
       /\ UNCHANGED <<clientVars, obsVars, concVars, batchVars, filterVars, qaVars>>
    \/ /\ ChunkReturn
       /\ UNCHANGED <<clientVars, obsVars, concVars, batchVars, filterVars, qaVars>>

\* the chunker has no storage: the client is the fresh one with no collection
InitChunk == Init /\ existing = {}

SpecChunk == InitChunk /\ [][NextChunk]_vars


----------------------------------------------------------------------------
(* Claims about the chunker (SpecChunk)                                     *)

\* position p of the text lies in the [start_char, end_char) of a chunk
Covered(p) ==
    \E i \in DOMAIN kchunks : kchunks[i].start_char <= p /\ p < kchunks[i].end_char

\* C12: for a text longer than chunk_size and 0 <= overlap < chunk_size,
\* the ranges of the emitted chunks cover the normalized text except for
\* gaps of at most 10 characters: no 11 positions in a row are uncovered.
C12_ChunksCoverText ==
    (kpc = "done" /\ Len(kraw) > chunk_size /\ Len(ktext) > chunk_size
        /\ overlap < chunk_size) =>
        \A a \in 0..(Len(ktext) - 1) :
            \E p \in a..(a + ShortChunk) : p >= Len(ktext) \/ Covered(p)

\* C13: the loop terminates for every text and configuration, overlap >=
\* chunk_size included: start grows strictly from one iteration to the next
\* and an iteration runs only at a start below the length of the text, so
\* the loop makes at most len(text) iterations.
C13_ChunkingTerminates ==
    kpc \in {"loop", "done"} =>
        /\ \A i \in DOMAIN kstarts : kstarts[i] >= 0 /\ kstarts[i] < Len(ktext)
        /\ \A i \in DOMAIN kstarts :
              kstarts[i] < (IF i = Len(kstarts) THEN kstart ELSE kstarts[i + 1])
        /\ Len(kstarts) <= Len(ktext)
        /\ kforced <= Len(kstarts)

\* the loop ended although overlap >= chunk_size, by forced advances only
C13_Witness ==
    /\ kpc = "done"
    /\ overlap >= chunk_size
    /\ Len(kstarts) >= 3
    /\ kforced = Len(kstarts)

\* C14: when the normalized text is no longer than chunk_size (the raw text
\* may be longer) and the text is not blank, exactly one chunk is returned
\* and its content is the whole trimmed text.
C14_ShortTextIsOneChunk ==
    (kpc = "done" /\ Strip(kraw) # <<>> /\ Len(normalize_text(kraw)) <= chunk_size) =>
        /\ Len(kchunks) = 1
        /\ kchunks[1].content \in {Strip(kraw), normalize_text(kraw)}

\* C15: for a text longer than chunk_size that yields at least one chunk,
\* the end_char of the last chunk is the length of the normalized text.
C15_LastChunkEndsAtTextEnd ==
    (kpc = "done" /\ Len(kraw) > chunk_size /\ kchunks # <<>>) =>
        kchunks[Len(kchunks)].end_char = Len(ktext)

----------------------------------------------------------------------------
(* QueryProcessor and QuestionAnsweringInterface                             *)

\* str.startswith(p)
StartsWith(s, p) == Len(s) >= Len(p) /\ SubSeq(s, 1, Len(p)) = p

\* `sub in s`
Contains(s, sub) ==
    \E i \in 0..(Len(s) - Len(sub)) : SubSeq(s, i + 1, i + Len(sub)) = sub

FactualPrefixes ==
    { <<"w", "h", "a", "t">>, <<"w", "h", "o">>, <<"w", "h", "e", "r", "e">>,
      <<"w", "h", "e", "n">>, <<"w", "h", "i", "c", "h">> }
ProceduralPrefixes == { <<"h", "o", "w">>, <<"w", "h", "y">> }
BooleanPrefixes ==
    { <<"i", "s">>, <<"a", "r", "e">>, <<"c", "a", "n">>,
      <<"c", "o", "u", "l", "d">>, <<"w", "i", "l", "l">>,
      <<"w", "o", "u", "l", "d">>, <<"s", "h", "o", "u", "l", "d">>,
      <<"d", "o", "e", "s">>, <<"d", "o">> }
\* detect_question_type as it would be if the query were not trimmed
detect_question_type_without_strip(query_text) ==
    LET query_lower == Lower(query_text)
    IN  IF \E p \in FactualPrefixes : StartsWith(query_lower, p) THEN "factual"
        ELSE IF \E p \in ProceduralPrefixes : StartsWith(query_lower, p)
        THEN "procedural"
        ELSE IF \E p \in BooleanPrefixes : StartsWith(query_lower, p) THEN "boolean"
        ELSE IF "?" \in Range(query_text) THEN "general_question"
        ELSE "keyword_search"

\* QueryProcessor.detect_question_type
detect_question_type(query_text) ==
    LET query_lower == Strip(Lower(query_text))
    IN  IF \E p \in FactualPrefixes : StartsWith(query_lower, p) THEN "factual"
        ELSE IF \E p \in ProceduralPrefixes : StartsWith(query_lower, p)
        THEN "procedural"
        ELSE IF \E p \in BooleanPrefixes : StartsWith(query_lower, p) THEN "boolean"
        ELSE IF "?" \in Range(query_text) THEN "general_question"
        ELSE "keyword_search"

\* word.strip('.,!?;:')
Punctuation == {".", ",", "!", "?", ";", ":"}

RECURSIVE LStripPunctuation(_)
LStripPunctuation(s) ==
    IF s # <<>> /\ Head(s) \in Punctuation THEN LStripPunctuation(Tail(s)) ELSE s

RECURSIVE RStripPunctuation(_)
RStripPunctuation(s) ==
    IF s # <<>> /\ s[Len(s)] \in Punctuation
    THEN RStripPunctuation(SubSeq(s, 1, Len(s) - 1))
    ELSE s

StripPunctuation(s) == RStripPunctuation(LStripPunctuation(s))

\* the abbreviations table of QueryProcessor.expand_abbreviations
Abbreviations ==
    { <<"d", "b">>, <<"a", "i">>, <<"m", "l">>, <<"a", "p", "i">>, <<"u", "i">>,
      <<"u", "x">>, <<"c", "p", "u">>, <<"g", "p", "u">>, <<"r", "a", "m">>,
      <<"o", "s">>, <<"j", "s">>, <<"p", "y">>, <<"c", "s", "s">>,
      <<"h", "t", "m", "l">>, <<"h", "t", "t", "p">>,
      <<"h", "t", "t", "p", "s">>, <<"u", "r", "l">>, <<"j", "s", "o", "n">>,
      <<"x", "m", "l">>, <<"s", "q", "l">> }
AbbreviationOf(clean_word) ==
    CASE clean_word = <<"d", "b">> ->
           <<"d", "a", "t", "a", "b", "a", "s", "e">>
      [] clean_word = <<"a", "i">> ->
           <<"a", "r", "t", "i", "f", "i", "c", "i", "a", "l", " ", "i", "n", "t", "e", "l", "l", "i", "g", "e", "n", "c", "e">>
      [] clean_word = <<"m", "l">> ->
           <<"m", "a", "c", "h", "i", "n", "e", " ", "l", "e", "a", "r", "n", "i", "n", "g">>
      [] clean_word = <<"a", "p", "i">> ->
           <<"a", "p", "p", "l", "i", "c", "a", "t", "i", "o", "n", " ", "p", "r", "o", "g", "r", "a", "m", "m", "i", "n", "g", " ", "i", "n", "t", "e", "r", "f", "a", "c", "e">>
      [] clean_word = <<"u", "i">> ->
           <<"u", "s", "e", "r", " ", "i", "n", "t", "e", "r", "f", "a", "c", "e">>
      [] clean_word = <<"u", "x">> ->
           <<"u", "s", "e", "r", " ", "e", "x", "p", "e", "r", "i", "e", "n", "c", "e">>
      [] clean_word = <<"c", "p", "u">> ->
           <<"c", "e", "n", "t", "r", "a", "l", " ", "p", "r", "o", "c", "e", "s", "s", "i", "n", "g", " ", "u", "n", "i", "t">>
      [] clean_word = <<"g", "p", "u">> ->
           <<"g", "r", "a", "p", "h", "i", "c", "s", " ", "p", "r", "o", "c", "e", "s", "s", "i", "n", "g", " ", "u", "n", "i", "t">>
      [] clean_word = <<"r", "a", "m">> ->
           <<"r", "a", "n", "d", "o", "m", " ", "a", "c", "c", "e", "s", "s", " ", "m", "e", "m", "o", "r", "y">>
      [] clean_word = <<"o", "s">> ->
           <<"o", "p", "e", "r", "a", "t", "i", "n", "g", " ", "s", "y", "s", "t", "e", "m">>
      [] clean_word = <<"j", "s">> ->
           <<"j", "a", "v", "a", "s", "c", "r", "i", "p", "t">>
      [] clean_word = <<"p", "y">> ->
           <<"p", "y", "t", "h", "o", "n">>
      [] clean_word = <<"c", "s", "s">> ->
           <<"c", "a", "s", "c", "a", "d", "i", "n", "g", " ", "s", "t", "y", "l", "e", " ", "s", "h", "e", "e", "t", "s">>
      [] clean_word = <<"h", "t", "m", "l">> ->
           <<"h", "y", "p", "e", "r", "t", "e", "x", "t", " ", "m", "a", "r", "k", "u", "p", " ", "l", "a", "n", "g", "u", "a", "g", "e">>
      [] clean_word = <<"h", "t", "t", "p">> ->
           <<"h", "y", "p", "e", "r", "t", "e", "x", "t", " ", "t", "r", "a", "n", "s", "f", "e", "r", " ", "p", "r", "o", "t", "o", "c", "o", "l">>
      [] clean_word = <<"h", "t", "t", "p", "s">> ->
           <<"h", "y", "p", "e", "r", "t", "e", "x", "t", " ", "t", "r", "a", "n", "s", "f", "e", "r", " ", "p", "r", "o", "t", "o", "c", "o", "l", " ", "s", "e", "c", "u", "r", "e">>
      [] clean_word = <<"u", "r", "l">> ->
           <<"u", "n", "i", "f", "o", "r", "m", " ", "r", "e", "s", "o", "u", "r", "c", "e", " ", "l", "o", "c", "a", "t", "o", "r">>
      [] clean_word = <<"j", "s", "o", "n">> ->
           <<"j", "a", "v", "a", "s", "c", "r", "i", "p", "t", " ", "o", "b", "j", "e", "c", "t", " ", "n", "o", "t", "a", "t", "i", "o", "n">>
      [] clean_word = <<"x", "m", "l">> ->
           <<"e", "x", "t", "e", "n", "s", "i", "b", "l", "e", " ", "m", "a", "r", "k", "u", "p", " ", "l", "a", "n", "g", "u", "a", "g", "e">>
      [] clean_word = <<"s", "q", "l">> ->
           <<"s", "t", "r", "u", "c", "t", "u", "r", "e", "d", " ", "q", "u", "e", "r", "y", " ", "l", "a", "n", "g", "u", "a", "g", "e">>

\* the loop of expand_abbreviations: a word whose cleaned form is in the
\* table is replaced by the expansion
RECURSIVE ReplaceAbbreviations(_)
ReplaceAbbreviations(words) ==
    IF words = <<>> THEN <<>>
    ELSE LET word == Head(words)
             clean_word == StripPunctuation(word)
         IN  <<IF clean_word \in Abbreviations THEN AbbreviationOf(clean_word)
               ELSE word>> \o ReplaceAbbreviations(Tail(words))

\* QueryProcessor.expand_abbreviations
expand_abbreviations(query_text) == Join(ReplaceAbbreviations(Split(Lower(query_text))))

\* the stop words of QueryProcessor.extract_keywords
StopWords ==
    { <<"a">>, <<"a", "n">>, <<"a", "n", "d">>, <<"a", "r", "e">>, <<"a", "s">>,
      <<"a", "t">>, <<"b", "e">>, <<"b", "y">>, <<"f", "o", "r">>,
      <<"f", "r", "o", "m">>, <<"h", "a", "s">>, <<"h", "e">>, <<"i", "n">>,
      <<"i", "s">>, <<"i", "t">>, <<"i", "t", "s">>, <<"o", "f">>, <<"o", "n">>,
      <<"t", "h", "a", "t">>, <<"t", "h", "e">>, <<"t", "o">>, <<"w", "a", "s">>,
      <<"w", "i", "l", "l">>, <<"w", "i", "t", "h">>, <<"t", "h", "i", "s">>,
      <<"t", "h", "e", "s", "e">>, <<"t", "h", "o", "s", "e">>, <<"i">>,
      <<"y", "o", "u">>, <<"w", "e">>, <<"t", "h", "e", "y">>, <<"m", "e">>,
      <<"u", "s">>, <<"t", "h", "e", "m">>, <<"m", "y">>, <<"y", "o", "u", "r">>,
      <<"o", "u", "r">> }

RECURSIVE KeepKeywords(_)
KeepKeywords(words) ==
    IF words = <<>> THEN <<>>
    ELSE LET word == Head(words)
         IN  (IF StripPunctuation(word) \notin StopWords /\ Len(word) > 2
              THEN <<StripPunctuation(word)>> ELSE <<>>)
                 \o KeepKeywords(Tail(words))

\* QueryProcessor.extract_keywords
extract_keywords(query_text) == KeepKeywords(Split(Lower(query_text)))

\* the words whose presence keeps "how to" from being put in front
ProceduralCues ==
    { <<"h", "o", "w">>, <<"s", "t", "e", "p">>,
      <<"m", "e", "t", "h", "o", "d">>, <<"p", "r", "o", "c", "e", "s", "s">> }
HowTo == <<"h", "o", "w", " ", "t", "o", " ">>

\* QuestionAnsweringInterface._preprocess_query
qa_preprocess_query(query_text) ==
    LET expanded == expand_abbreviations(Strip(query_text))
        question_type == detect_question_type(query_text)
    IN  IF question_type = "procedural"
           /\ ~ \E word \in ProceduralCues : Contains(Lower(expanded), word)
        THEN HowTo \o expanded
        ELSE expanded

\* the first n elements: seq[:n] for n >= 0
Take(seq, n) == SubSeq(seq, 1, Min(n, Len(seq)))

\* the squared distances of the scores to the first score, summed; with
\* scores in tenths the variance is below 0.01 when the sum is below the
\* number of sources
SumSquares(sources) ==
    LET RECURSIVE Sum(_)
        Sum(i) == IF i = 0 THEN 0
                  ELSE (sources[i].score - sources[1].score)
                           * (sources[i].score - sources[1].score) + Sum(i - 1)
    IN  Sum(Len(sources))

\* the test of the consensus boost: more than one source and
\* sum((s.score - sources[0].score) ** 2) / len(sources) < 0.01
consensus(sources) ==
    Len(sources) > 1 /\ SumSquares(sources) < Len(sources)

\* _calculate_confidence_score as it would be without min(.., 1.0)
calculate_confidence_without_cap(sources, question_type) ==
    IF sources = <<>> THEN 0
    ELSE LET top == sources[1].score
             base == top * 100000
             typed == IF question_type = "factual" THEN (base * 9) \div 10
                      ELSE IF question_type = "boolean" THEN (base * 11) \div 10
                      ELSE base
             boosted == IF Len(sources) > 1 /\ SumSquares(sources) < Len(sources)
                        THEN (typed * 105) \div 100
                        ELSE typed
             penalized == IF top < 5 THEN (boosted * 8) \div 10 ELSE boosted
         IN  (penalized + 500) \div 1000

\* QuestionAnsweringInterface._calculate_confidence_score.  Scores are in
\* tenths, the result is in thousandths; the products are kept exact in
\* millionths and round(.., 3) rounds them to the nearest thousandth
calculate_confidence_score(sources, question_type) ==
    IF sources = <<>> THEN 0
    ELSE LET top == sources[1].score
             base == top * 100000
             typed == IF question_type = "factual" THEN (base * 9) \div 10
                      ELSE IF question_type = "boolean"
                      THEN Min((base * 11) \div 10, 1000000)
                      ELSE base
             boosted == IF consensus(sources)
                        THEN Min((typed * 105) \div 100, 1000000)
                        ELSE typed
             penalized == IF top < 5 THEN (boosted * 8) \div 10 ELSE boosted
         IN  (penalized + 500) \div 1000

\* _generate_answer: which of the answer texts is built
generate_answer(sources, question_type) ==
    IF sources = <<>> THEN "apology"
    ELSE IF question_type \in {"boolean", "factual", "procedural"} THEN question_type
    ELSE "general"

\* _generate_query_suggestions: which suggestions are made, at most three
generate_query_suggestions(question, sources, keywords) ==
    LET low == IF sources = <<>> \/ sources[1].score < 6
               THEN <<"specific_terms">>
                        \o (IF keywords # <<>> THEN <<"focus_on_keywords">> ELSE <<>>)
               ELSE <<>>
        related == IF \E i \in DOMAIN sources : sources[i].file_type # ""
                   THEN <<"related_file_types">> ELSE <<>>
        question_type == detect_question_type(question)
        hint == IF question_type = "procedural" THEN <<"how_to_hint">>
                ELSE IF question_type = "factual" THEN <<"what_is_hint">>
                ELSE <<>>
    IN  Take(low \o related \o hint, 3)

\* _create_error_response
create_error_response(question, error_message) ==
    [question |-> question, answer |-> "error", sources |-> <<>>,
     confidence_score |-> 0,
     suggestions |-> <<"rephrase", "check_valid_text">>,
     error |-> error_message, reason |-> "", question_type |-> ""]

\* _create_no_results_response
create_no_results_response(question) ==
    [question |-> question, answer |-> "no_results", sources |-> <<>>,
     confidence_score |-> 0,
     suggestions |-> <<"different_keywords", "check_documents_added",
                       "more_general_terms">>,
     error |-> "", reason |-> "no_relevant_documents", question_type |-> ""]

\* a confidence QAResponse.__post_init__ accepts: 0 <= confidence_score <= 1
ValidConfidence(confidence_score) == 0 <= confidence_score /\ confidence_score <= 1000

\* a score EnhancedSearchResult.__post_init__ accepts: 0 <= score <= 1
ValidScore(score) == 0 <= score /\ score <= 10

\* ask_question as it would be if a blank question were searched like any
\* other
ask_question_without_validation(s, question, max_sources, min_score, expand_query, fault) ==
    LET processed_query == IF expand_query THEN qa_preprocess_query(question)
                           ELSE Strip(question)
        r == query(s, processed_query, Max(max_sources * 2, 10), min_score, "none")
    IN  [st |-> r.st, raised |-> FALSE, trace |-> <<"query">> \o r.trace,
         processed_query |-> processed_query, hits |-> r.hits,
         response |-> create_no_results_response(question)]

\* QAResponse(..) at the end of the try block: a confidence outside 0..1
\* raises in __post_init__ and the handler answers with the error
construct_response(done, response) ==
    IF ValidConfidence(response.confidence_score)
    THEN [done EXCEPT !.response = response]
    ELSE [done EXCEPT !.response =
             create_error_response(response.question,
                                   "Confidence score must be between 0 and 1")]

\* ask_question from the search results on: no results, the enhancement of
\* the first max_sources results, the answer, the confidence, the
\* suggestions.  done is the outcome when nothing was found.  The context
\* and citation texts of the sources are not held
answer_search_results(done, question, max_sources, fault, search_results) ==
    LET sources == Take(search_results, max_sources)
        question_type == detect_question_type(question)
    IN  IF search_results = <<>>
        THEN done
        ELSE IF \E i \in DOMAIN sources : ~ValidScore(sources[i].score)
        THEN [done EXCEPT !.response =
                 create_error_response(question, "Score must be between 0 and 1")]
        ELSE IF fault = "generate_answer"
        THEN [done EXCEPT !.response =
                 create_error_response(question, "CollaboratorError")]
        ELSE construct_response(done,
                 [question |-> question,
                  answer |-> generate_answer(sources, question_type),
                  sources |-> sources,
                  confidence_score |->
                      calculate_confidence_score(sources, question_type),
                  suggestions |->
                      generate_query_suggestions(question, sources,
                                                 extract_keywords(question)),
                  error |-> "", reason |-> "",
                  question_type |-> question_type])

\* ask_question once vector_client.query has returned r
answer_query_return(question, processed_query, max_sources, fault, r) ==
    answer_search_results(
        [st |-> r.st, raised |-> FALSE, trace |-> <<"query">> \o r.trace,
         processed_query |-> processed_query, hits |-> r.hits,
         response |-> create_no_results_response(question)],
        question, max_sources, fault, r.hits)

\* ask_question for a question that is not blank, with its processed query
ask_processed_query(s, question, processed_query, max_sources, min_score, fault) ==
    IF fault = "query"
    THEN [st |-> s, raised |-> FALSE, trace |-> <<"query">>,
          processed_query |-> processed_query, hits |-> <<>>,
          response |-> create_error_response(question, "CollaboratorError")]
    ELSE answer_query_return(question, processed_query, max_sources, fault,
             query(s, processed_query, Max(max_sources * 2, 10), min_score, fault))

\* the elapsed time of every QAResponse: with the system clock set back
\* during the call time.time() - start_time is negative and
\* QAResponse.__post_init__ raises, in the handler of the exception too
elapsed_time_checked(fault, out) ==
    IF fault = "clock_back"
    THEN [out EXCEPT !.raised = TRUE, !.response = NoQA.response]
    ELSE out

\* QuestionAnsweringInterface.ask_question.  fault: "query" makes
\* vector_client.query raise, "generate_answer" makes _generate_answer raise,
\* "clock_back" is the system clock set back during the call; the other
\* values are those of VectorClient.query
ask_question(s, question, max_sources, min_score, expand_query, fault) ==
    elapsed_time_checked(fault,
        IF IsBlank(question)
        THEN [st |-> s, raised |-> FALSE, trace |-> <<>>,
              processed_query |-> <<>>, hits |-> <<>>,
              response |-> create_error_response(question,
                                                 "Question cannot be empty")]
        ELSE ask_processed_query(s, question,
                 IF expand_query THEN qa_preprocess_query(question)
                 ELSE Strip(question),
                 max_sources, min_score, fault))

----------------------------------------------------------------------------
(* SpecQA: files are uploaded, questions are asked, texts are searched and  *)
(* classified                                                                *)

\* questions: empty, blank, an abbreviation alone, one of each type
QAQuestions ==
    { <<>>, <<" ", " ">>, <<"D", "b">>,
      <<"w", "h", "a", "t", " ", "i", "s", " ", "d", "b", "?">>,
      <<"w", "h", "y", " ", "a", "p", "i">>,
      <<"i", "s", " ", "m", "l", " ", "o", "k">>,
      <<"u", "i", ",", " ", "n", "o", "t", "e", "s">>,
      <<"n", "o", "t", "e", "s", "?">> }
QAMaxSources == {1, 5}

\* documents inserted with a file_type attribute: their contents and types
QAContents == {1, 3}
QAFileTypes == {".md"}

\* source lists handed to _calculate_confidence_score: up to MaxSources
\* scores in tenths, among them weak ones (below 5), neighbours one and
\* two tenths apart and the largest
MaxSources == 3
ConfidenceScores == {0, 4, 5, 8, 9, 10}
QuestionTypes ==
    {"factual", "procedural", "boolean", "general_question", "keyword_search"}
QAMinScores == {-2, 3}
QAFaults == {"none", "query", "search", "generate_answer", "clock_back"}

\* queries handed to detect_question_type: every prefix in lower case and
\* capitalized behind a blank, with and without a question mark, and texts
\* that start with no prefix
TypeQueries ==
    { <<"w", "h", "a", "t", " ", "x">>,
      <<" ", "W", "h", "a", "t", " ", "x", "?">>, <<"w", "h", "o", " ", "x">>,
      <<" ", "W", "h", "o", " ", "x", "?">>,
      <<"w", "h", "e", "r", "e", " ", "x">>,
      <<" ", "W", "h", "e", "r", "e", " ", "x", "?">>,
      <<"w", "h", "e", "n", " ", "x">>,
      <<" ", "W", "h", "e", "n", " ", "x", "?">>,
      <<"w", "h", "i", "c", "h", " ", "x">>,
      <<" ", "W", "h", "i", "c", "h", " ", "x", "?">>,
      <<"h", "o", "w", " ", "x">>, <<" ", "H", "o", "w", " ", "x", "?">>,
      <<"w", "h", "y", " ", "x">>, <<" ", "W", "h", "y", " ", "x", "?">>,
      <<"i", "s", " ", "x">>, <<" ", "I", "s", " ", "x", "?">>,
      <<"a", "r", "e", " ", "x">>, <<" ", "A", "r", "e", " ", "x", "?">>,
      <<"c", "a", "n", " ", "x">>, <<" ", "C", "a", "n", " ", "x", "?">>,
      <<"c", "o", "u", "l", "d", " ", "x">>,
      <<" ", "C", "o", "u", "l", "d", " ", "x", "?">>,
      <<"w", "i", "l", "l", " ", "x">>,
      <<" ", "W", "i", "l", "l", " ", "x", "?">>,
      <<"w", "o", "u", "l", "d", " ", "x">>,
      <<" ", "W", "o", "u", "l", "d", " ", "x", "?">>,
      <<"s", "h", "o", "u", "l", "d", " ", "x">>,
      <<" ", "S", "h", "o", "u", "l", "d", " ", "x", "?">>,
      <<"d", "o", "e", "s", " ", "x">>,
      <<" ", "D", "o", "e", "s", " ", "x", "?">>, <<"d", "o", " ", "x">>,
      <<" ", "D", "o", " ", "x", "?">>, <<>>, <<" ">>, <<"x">>, <<"x", "?">>,
      <<"?">>, <<"x", " ", "w", "h", "a", "t">>,
      <<"x", " ", "h", "o", "w", "?">>, <<"t", "e", "l", "l", " ", "i", "s">>,
      <<"w", "h", "a">>, <<"h", "o", "?">>, <<"d">>, <<"i", "?">> }

\* the response of ask_question reaches the caller
AskQuestionReturn(r, question, max_sources, min_score, expand_query, fault) ==
    /\ SetClient(r.st)
    /\ qa' = [op |-> "ask", question |-> question, max_sources |-> max_sources,
              min_score |-> min_score, expand_query |-> expand_query,
              fault |-> fault, raised |-> r.raised, trace |-> r.trace,
              processed_query |-> r.processed_query, candidates |-> r.hits,
              embedded |-> IF "embed_text" \in Range(r.trace)
                           THEN preprocess_query(r.processed_query) ELSE <<>>,
              response |-> r.response]
    /\ UNCHANGED <<dq, cs>>

AskQuestion(question, max_sources, min_score, expand_query, fault) ==
    /\ QAIdle
    /\ AskQuestionReturn(
           ask_question(ClientState, question, max_sources, min_score,
                        expand_query, fault),
           question, max_sources, min_score, expand_query, fault)

\* a plain search: VectorClient.query with the defaults of ask_question left out
Search(text, limit) ==
    LET r == query(ClientState, text, limit, 0, "none")
    IN  /\ QAIdle
        /\ SetClient(r.st)
        /\ qa' = [NoQA EXCEPT !.op = "search", !.question = text,
                     !.raised = r.raised, !.trace = r.trace,
                     !.processed_query = text, !.candidates = r.hits,
                     !.embedded = IF "embed_text" \in Range(r.trace)
                                  THEN preprocess_query(text) ELSE <<>>]
        /\ UNCHANGED <<dq, cs>>

QAUpload(file_path) ==
    LET r == upload(ClientState, file_path, "none")
    IN  /\ QAIdle
        /\ r.st.nextId <= MaxDocs
        /\ SetClient(r.st)
        /\ UNCHANGED <<qa, dq, cs>>

\* MilvusVectorDB.insert_documents called with one document that carries
\* a file_type attribute.  The ValueError for a collection that does not
\* exist is raised inside the try block, whose `except Exception` logs it
\* and returns False: the call never raises
QAInsertDocuments(content, file_type) ==
    LET ins == insert_documents_of_type(ClientState, collection_name,
                                        <<content>>, file_type)
    IN  /\ QAIdle
        /\ ins.st.nextId <= MaxDocs
        /\ SetClient(ins.st)
        /\ qa' = [NoQA EXCEPT !.op = "insert_documents", !.raised = FALSE,
                     !.trace = <<"collection_exists">>,
                     !.response.answer = IF ins.success THEN "true" ELSE "false"]
        /\ UNCHANGED <<dq, cs>>

\* MilvusVectorDB.search called with the embedding of a text.  The
\* ValueError for a collection that does not exist is raised inside the try
\* block, whose `except Exception` logs it and returns []: the call never
\* raises
QASearchCollection(text, limit) ==
    /\ QAIdle
    /\ qa' = [NoQA EXCEPT !.op = "db_search", !.raised = FALSE,
                 !.trace = <<"collection_exists">>,
                 !.processed_query = text,
                 !.candidates = search(ClientState, collection_name, text, limit)]
    /\ UNCHANGED <<clientVars, dq, cs>>

DetectQuestionType(text) ==
    /\ QAIdle
    /\ dq' = [query |-> text, called |-> TRUE, type |-> detect_question_type(text)]
    /\ UNCHANGED <<clientVars, qa, cs>>

\* _calculate_confidence_score on a list of sources with valid scores
CalculateConfidence(scores, question_type) ==
    LET sources == [i \in DOMAIN scores |-> [id |-> "src", score |-> scores[i]]]
    IN  /\ QAIdle
        /\ cs' = [sources |-> sources, question_type |-> question_type,
                  called |-> TRUE,
                  score |-> calculate_confidence_score(sources, question_type),
                  boosted |-> consensus(sources)]
        /\ UNCHANGED <<clientVars, qa, dq>>

\* the caller takes the response
QAReturn ==
    /\ ~QAIdle
    /\ qa' = NoQA
    /\ dq' = NoDQ
    /\ cs' = NoCS
    /\ UNCHANGED clientVars

NextQA ==
    \/ /\ \E question \in QAQuestions, max_sources \in QAMaxSources,
             min_score \in QAMinScores, expand_query \in BOOLEAN, fault \in QAFaults :
             AskQuestion(question, max_sources, min_score, expand_query, fault)
       /\ UNCHANGED <<obsVars, concVars, batchVars, filterVars, chunkVars>>
    \/ /\ \E text \in QAQuestions : Search(text, MaxLimit)
       /\ UNCHANGED <<obsVars, concVars, batchVars, filterVars, chunkVars>>
    \/ /\ \E file_path \in FilePaths : QAUpload(file_path)
       /\ UNCHANGED <<obsVars, concVars, batchVars, filterVars, chunkVars>>
    \/ /\ \E content \in QAContents, file_type \in QAFileTypes :
             QAInsertDocuments(content, file_type)
       /\ UNCHANGED <<obsVars, concVars, batchVars, filterVars, chunkVars>>
    \/ /\ \E text \in QAQuestions : QASearchCollection(text, MaxLimit)
       /\ UNCHANGED <<obsVars, concVars, batchVars, filterVars, chunkVars>>
    \/ /\ \E text \in TypeQueries : DetectQuestionType(text)
       /\ UNCHANGED <<obsVars, concVars, batchVars, filterVars, chunkVars>>
    \/ /\ \E n \in 0..MaxSources : \E scores \in [1..n -> ConfidenceScores] :
             \E question_type \in QuestionTypes :
                 CalculateConfidence(scores, question_type)
       /\ UNCHANGED <<obsVars, concVars, batchVars, filterVars, chunkVars>>
    \/ /\ QAReturn
       /\ UNCHANGED <<obsVars, concVars, batchVars, filterVars, chunkVars>>

SpecQA == Init /\ [][NextQA]_vars

----------------------------------------------------------------------------
(* Claims about question answering, checked under SpecQA                    *)

\* the words of a question as a search tokenizes them: trimmed, in lower
\* case, punctuation replaced by blanks
QuestionTokens(question) == Split(ReplaceSpecial(Lower(Strip(question))))

\* token stands in words and the words of its expansion follow it
KeptWithExpansion(words, token) ==
    LET expansion == Split(Expansion(token))
    IN  \E j \in DOMAIN words :
            /\ words[j] = token
            /\ j + Len(expansion) <= Len(words)
            /\ SubSeq(words, j + 1, j + Len(expansion)) = expansion

\* C16: in the text that is embedded, by a plain search and by ask_question
\* with query expansion on, every token of the query that is a key of the
\* abbreviation table is kept and is immediately followed by its expansion.
\* Violated: ask_question replaces the abbreviation by its expansion before
\* the search sees it
C16_AbbreviationKeptBeforeExpansion ==
    (/\ qa.op \in {"search", "ask"}
     /\ "embed_text" \in Range(qa.trace)
     /\ qa.op = "ask" => qa.expand_query) =>
        \A i \in DOMAIN QuestionTokens(qa.question) :
            HasExpansion(QuestionTokens(qa.question)[i]) =>
                KeptWithExpansion(Split(qa.embedded), QuestionTokens(qa.question)[i])

AskFailed ==
    \/ qa.fault \in {"query", "clock_back"}
    \/ /\ qa.candidates # <<>>
       /\ \/ qa.fault = "generate_answer"
          \/ \E i \in DOMAIN Take(qa.candidates, qa.max_sources) :
                 ~ValidScore(qa.candidates[i].score)

\* C18: ask_question never propagates an exception: when the retrieval, the
\* enhancement, the answer generation or the construction of the answer
\* raises, it returns an answer with confidence 0, no sources and the error
\* message in metadata.error.  Violated: with the clock set back during the
\* call the construction of the error answer raises as well
C18_AskQuestionNeverRaises ==
    qa.op = "ask" =>
        /\ ~qa.raised
        /\ (~IsBlank(qa.question) /\ AskFailed) =>
              /\ qa.response.answer = "error"
              /\ qa.response.confidence_score = 0
              /\ qa.response.sources = <<>>
              /\ qa.response.error # ""

\* C19: the confidence of every answer ask_question returns, and of every
\* call of _calculate_confidence_score on sources with scores between 0 and
\* 1, lies between 0 and 1, whatever the question type and the number of
\* sources
C19_ConfidenceWithinUnitInterval ==
    /\ cs.called => (0 <= cs.score /\ cs.score <= 1000)
    /\ (qa.op = "ask" /\ ~qa.raised) =>
           (0 <= qa.response.confidence_score /\ qa.response.confidence_score <= 1000)

\* a boolean question whose two sources agree at the largest score: both
\* the type multiplier and the consensus boost are cut at 1
C19_Witness ==
    /\ cs.called
    /\ cs.question_type = "boolean"
    /\ Len(cs.sources) = 2
    /\ cs.sources[1].score = 10
    /\ cs.sources[2].score = 9
    /\ cs.score = 1000

\* the trimmed lower-case text of the classified query starts with one of
\* the prefixes
QueryHasPrefix(prefixes) ==
    \E prefix \in prefixes : StartsWith(Strip(Lower(dq.query)), prefix)

\* C20: detect_question_type returns one of the five types for every query,
\* by the first rule that matches the trimmed lower-case text: a factual
\* prefix, then a procedural prefix, then a boolean prefix, then a question
\* mark anywhere, else keyword_search; a question mark changes the type only
\* when no prefix matches
C20_FirstMatchingRuleGivesType ==
    dq.called =>
        /\ dq.type \in QuestionTypes
        /\ dq.type = "factual" <=> QueryHasPrefix(FactualPrefixes)
        /\ dq.type = "procedural" <=>
              (~QueryHasPrefix(FactualPrefixes) /\ QueryHasPrefix(ProceduralPrefixes))
        /\ dq.type = "boolean" <=>
              (/\ ~QueryHasPrefix(FactualPrefixes \cup ProceduralPrefixes)
               /\ QueryHasPrefix(BooleanPrefixes))
        /\ dq.type = "general_question" <=>
              (/\ ~QueryHasPrefix(FactualPrefixes \cup ProceduralPrefixes
                                      \cup BooleanPrefixes)
               /\ "?" \in Range(dq.query))
        /\ QueryHasPrefix(FactualPrefixes \cup ProceduralPrefixes \cup BooleanPrefixes) =>
              detect_question_type(dq.query \o <<"?">>) = dq.type

\* a capitalized factual question behind a blank, with a question mark
C20_Witness ==
    /\ dq.called
    /\ dq.query = <<" ", "W", "h", "a", "t", " ", "x", "?">>
    /\ dq.type = "factual"

----------------------------------------------------------------------------
(* Claims about the empty batch, checked under SpecBatch                    *)

\* C21: batch_add_documents and batch_remove_documents called with an empty
\* list return success false with total, successful and failed 0, no
\* per-item result and an error message, and the step that returns makes no
\* call of add_document or remove_document and leaves the client and the
\* storage as they were
C21_EmptyBatchFailsWithoutCalls ==
    [][(bpc' = "done" /\ items' = <<>>) =>
          /\ ~ret'.success
          /\ ret'.total = 0 /\ ret'.successful = 0 /\ ret'.failed = 0
          /\ ret'.results = <<>>
          /\ ret'.error # ""
          /\ processed' = <<>>
          /\ UNCHANGED clientVars]_vars

\* an empty removal list handed over while the storage holds a document
C21_Witness ==
    /\ bpc = "done"
    /\ bop = "remove"
    /\ items = <<>>
    /\ store # {}
    /\ ret.error = "No document IDs provided"

----------------------------------------------------------------------------
(* SpecRepoint: one VectorClient is used, and handed to the constructor of  *)
(* a RagAPI or a QuestionAnsweringInterface, which assigns its              *)
(* collection_name                                                          *)

\* RagAPI.__init__ / QuestionAnsweringInterface.__init__ on the client:
\* `self.vector_client.collection_name = collection_name`, nothing else of
\* the client is touched
Repoint(name) ==
    /\ collection_name' = name
    /\ last' = [NoOp EXCEPT !.op = "repoint", !.arg = name]
    /\ UNCHANGED <<initialized, existing, store, nextId, ensured, seen>>

NextRepoint ==
    \/ /\ \E text \in QueryTexts, fault \in QueryFaults :
             Query(text, MaxLimit, 0, fault)
       /\ UNCHANGED <<concVars, batchVars, filterVars, pureVars>>
    \/ /\ \E file_path \in FilePaths, fault \in UploadFaults : Upload(file_path, fault)
       /\ UNCHANGED <<concVars, batchVars, filterVars, pureVars>>
    \/ /\ \E name \in CollNames : Repoint(name)
       /\ UNCHANGED <<concVars, batchVars, filterVars, pureVars>>

SpecRepoint == Init /\ [][NextRepoint]_vars

\* C22: provisioning follows the collection name: a query that reaches the
\* search and an upload that reaches the insertion find the collection the
\* client points to in the storage, also after the client was pointed to
\* another collection.  Violated: _initialized stays set when
\* collection_name is assigned, so the new collection is neither looked for
\* nor created
C22_ProvisionedPerCollectionName ==
    (/\ last.op \in {"query", "upload"}
     /\ last.fault = "none"
     /\ Range(last.trace) \cap {"search", "insert_documents"} # {}) =>
        collection_name \in existing

----------------------------------------------------------------------------
(* Claims about deleting the collection, checked under Spec                 *)

\* C23: delete_collection clears the provisioned flag exactly when the
\* delete of the storage returns true; when it returns false or raises,
\* delete_collection returns False and leaves the flag as it was.  With the
\* flag cleared the next query, upload or get_collection_info that meets no
\* fault runs the existence check again and leaves the collection in the
\* storage
C23_DeleteClearsFlagOnSuccess ==
    [][ /\ last'.op = "delete_collection" =>
              /\ ~last'.raised
              /\ last'.ok <=> (last'.fault = "none")
              /\ last'.ok => (~initialized' /\ collection_name \notin existing')
              /\ ~last'.ok => (initialized' = initialized /\ existing' = existing)
        /\ (/\ last.op = "delete_collection" /\ last.ok
            /\ last'.op \in {"query", "upload", "get_collection_info"}
            /\ last'.fault = "none") =>
              /\ "collection_exists" \in Range(last'.trace)
              /\ "create_collection" \in Range(last'.trace)
              /\ initialized'
              /\ collection_name \in existing' ]_vars

\* the collection deleted after documents were stored in it
C23_Witness ==
    /\ last.op = "delete_collection"
    /\ last.ok
    /\ nextId > 0
    /\ store = {}
    /\ ~initialized
    /\ collection_name \notin existing

----------------------------------------------------------------------------
(* Further claims about the chunker, checked under SpecChunk                *)

\* the chunks of the window path (those of the single-chunk path carry no
\* offsets)
WindowChunks == {i \in DOMAIN kchunks : kchunks[i].start_char >= 0}

\* C24: a window end moved to a boundary lies at or before start +
\* chunk_size and less than 200 characters before it, so that no chunk spans
\* more than chunk_size characters of the normalized text.  Violated: the
\* end returned is behind the boundary found, which may itself stand at the
\* cut point
C24_BoundaryNotBehindCutPoint ==
    \A i \in WindowChunks :
        /\ kchunks[i].end_char <= kchunks[i].start_char + chunk_size
        /\ kchunks[i].end_char > kchunks[i].start_char + chunk_size - SearchRange
        /\ Len(kchunks[i].content) <= chunk_size

\* C25: the chunks returned carry chunk_index 0, 1, .., n-1 in the order of
\* emission, without a gap where a slice of at most 10 characters was
\* skipped, and each carries total_chunks = n, the number of chunks returned
C25_ChunkIndexesAreContiguous ==
    /\ kpc \in {"loop", "done"} =>
          \A i \in DOMAIN kchunks : kchunks[i].chunk_index = i - 1
    /\ kpc = "done" =>
          \A i \in DOMAIN kchunks :
              /\ "total_chunks" \in kchunks[i].keys
              /\ kchunks[i].total_chunks = Len(kchunks)

\* two chunks returned with a skipped slice between them
C25_Witness ==
    /\ kpc = "done"
    /\ Len(kchunks) = 2
    /\ kchunks[2].chunk_index = 1
    /\ kchunks[2].total_chunks = 2
    /\ \E j \in DOMAIN kstarts :
          /\ kstarts[j] > kchunks[1].start_char
          /\ kstarts[j] < kchunks[2].start_char

\* C26: every chunk returned, on the single-chunk path as on the window
\* path, records start_char and end_char in its metadata beside its
\* chunk_index.  Violated: the chunk of the single-chunk path carries
\* chunk_index and total_chunks only
C26_EveryChunkRecordsOffsets ==
    kpc = "done" =>
        \A i \in DOMAIN kchunks :
            {"chunk_index", "start_char", "end_char"} \subseteq kchunks[i].keys

\* C30: every chunk of the window path has 0 <= start_char < end_char <=
\* len(normalized text), for every text and configuration.  Violated: the
\* end returned for a boundary close to the end of the text lies behind the
\* text
C30_OffsetsWithinText ==
    \A i \in WindowChunks :
        /\ 0 <= kchunks[i].start_char
        /\ kchunks[i].start_char < kchunks[i].end_char
        /\ kchunks[i].end_char <= Len(ktext)

----------------------------------------------------------------------------
(* Further claims about question answering, checked under SpecQA            *)

\* the sum of the scores and of their squares, in tenths
RECURSIVE ScoreSum(_)
ScoreSum(sources) ==
    IF sources = <<>> THEN 0 ELSE Head(sources).score + ScoreSum(Tail(sources))
RECURSIVE ScoreSquareSum(_)
ScoreSquareSum(sources) ==
    IF sources = <<>> THEN 0
    ELSE Head(sources).score * Head(sources).score + ScoreSquareSum(Tail(sources))

\* the population variance of the scores, mean(x^2) - mean(x)^2, is below
\* 0.01: with n scores in tenths, n * sum(x^2) - sum(x)^2 < n^2
PopulationVarianceLow(sources) ==
    Len(sources) * ScoreSquareSum(sources) - ScoreSum(sources) * ScoreSum(sources)
        < Len(sources) * Len(sources)

\* C27: the consensus boost is applied exactly when there are at least two
\* sources and the population variance of their scores, the mean squared
\* deviation from their mean, is below 0.01.  Violated: the code takes the
\* deviations from the first score, not from the mean
C27_BoostOnLowPopulationVariance ==
    cs.called =>
        (cs.boosted <=> (Len(cs.sources) >= 2 /\ PopulationVarianceLow(cs.sources)))


\* C28: every procedural or factual question that yields at least one
\* source is answered with the hint of its type among the suggestions.
\* Violated: with a weak best source, keywords and a source that has a file
\* type, the hint is the fourth suggestion and the cut to three drops it
C28_TypeHintAmongSuggestions ==
    (/\ qa.op = "ask" /\ ~qa.raised
     /\ qa.response.sources # <<>>
     /\ qa.response.question_type \in {"procedural", "factual"}) =>
        (IF qa.response.question_type = "procedural" THEN "how_to_hint"
         ELSE "what_is_hint") \in Range(qa.response.suggestions)


\* C29: MilvusVectorDB.insert_documents and MilvusVectorDB.search raise
\* ValueError to their caller when the named collection does not exist.
\* Violated: both catch the ValueError themselves and return False and []
C29_MissingCollectionRaises ==
    [][(/\ qa'.op \in {"insert_documents", "db_search"}
        /\ collection_name \notin existing) => qa'.raised]_vars

====
